---- MODULE Spec2Model ----
(***************************************************************************)
(* Claude usage monitor: the usage-acquisition pipeline.                   *)
(*                                                                         *)
(*   scraper.js        ClaudeUsageScraper  (src/unnamed/part_003)          *)
(*   auth.js           ClaudeAuth          (src/src/auth.js)               *)
(*   dataProvider.js   UsageDataProvider   (src/src/dataProvider.js)       *)
(*   claudeDataLoader  ClaudeDataLoader    (src/src/claudeDataLoader.js,   *)
(*                                          and the copy src/unnamed/      *)
(*                                          part_002)                      *)
(*                                                                         *)
(* Spec      one fetch cycle at a time (fetchUsage), with the commands of  *)
(*           extension.js that act on the scraper between cycles.          *)
(* SpecReplay one call of fetchUsageData on a page that is set up.        *)
(* SpecDom   the DOM text fallback of fetchUsageData as a function of the  *)
(*           page text.                                                    *)
(* SpecLoader the session snapshot of the local log aggregator.            *)
(***************************************************************************)
EXTENDS Integers, Sequences, FiniteSets, TLC

VARIABLES
    scraper,    \* ClaudeUsageScraper: browser, page, isInitialized, isConnectedBrowser, captured endpoints
    auth,       \* ClaudeAuth: page, browser (set by setPageAndBrowser)
    browsers,   \* environment: the browser processes the scraper launched and that are still running
    jar,        \* environment: the sessionKey cookie of the profile directory
    now,        \* environment: the clock the cookie expiry is compared with
    cycle,      \* fetchUsage: position in the cycle and its locals
    provider,   \* UsageDataProvider: usageData
    replay,     \* SpecReplay: one call of fetchUsageData, its inputs and its result
    domText,   \* SpecDom: the rendered text of the usage page
    domResult,  \* SpecDom: what the fallback made of it
    fsys,       \* SpecLoader: the log root and the files under it
    loader,     \* SpecLoader: the loader's workspace and the clock of the call
    snapshot,   \* SpecLoader: the last result of getCurrentSessionUsage
    profile,    \* SpecSession: the browser profile directory and the last result of ClaudeAuth on it
    usageLog,   \* SpecRecords: the lines of a log file and what the loader made of them
    scan,       \* SpecScan: the lines of the selected log file and the snapshot scanned from them
    roots,      \* the candidate roots of the logs and what was found (SpecRoots)
    tracker,    \* SpecTracker: the session-state file, the SessionTracker and the calls in flight on it
    history,    \* SpecHistory: the usage-history file and the points added to it
    caller,     \* SpecCaller: the performFetch calls in flight and the scraper they share
    bar,        \* SpecBar: the status bar items and the settings they follow
    projects,   \* SpecProjects: the project directories made under the root and the one the loader maps its workspace to
    display,    \* SpecDisplay: the stored session, the status bar and the tree as the two update paths leave them
    refresh     \* SpecRefresh: the autoRefreshMinutes setting, the timer handle of the extension and the timers that run

fetchVars == <<scraper, auth, browsers, jar, now, cycle, provider>>
replayVars == <<replay>>
domVars == <<domText, domResult>>
loaderVars == <<fsys, loader, snapshot>>
sessionVars == <<profile>>
recordVars == <<usageLog>>
scanVars == <<scan>>
rootVars == <<roots>>
trackerVars == <<tracker>>
historyVars == <<history>>
callerVars == <<caller>>
barVars == <<bar>>
projectVars == <<projects>>
displayVars == <<display>>
refreshVars == <<refresh>>
vars == <<scraper, auth, browsers, jar, now, cycle, provider, replay, domText,
          domResult, fsys, loader, snapshot, profile, usageLog, scan, roots,
          tracker, history, caller, bar,
          projects,
          display,
          refresh>>

----------------------------------------------------------------------------
(* Bounds of the model *)

\* Browser and page handles are drawn from 1..MaxHandles; 0 is null.
MaxHandles == 3
\* The clock runs from 0 to MaxTime.
MaxTime == 1
\* TIMEOUTS.LOGIN_WAIT and TIMEOUTS.LOGIN_POLL in units of one poll interval.
LoginWait == 2
LoginPoll == 1
\* API requests recorded in capturedEndpoints during one page's life: at most
\* this many.
MaxRequests == 5

Null == 0
NoEndpoint == "null"
NoHeaders == [from |-> "null", contentType |-> "null"]
NoError == <<>>

Min(a, b) == IF a < b THEN a ELSE b

----------------------------------------------------------------------------
(* Error messages.  A message is a sequence of fragments; the fragments    *)
(* are cut so that each substring the code searches for ('timeout',        *)
(* 'already running') is a fragment of its own wherever it occurs.         *)

\* String.prototype.includes on a message.
Includes(msg, needle) == \E i \in 1..Len(msg) : msg[i] = needle

CHROME_NOT_FOUND == <<"CHROME_NOT_FOUND">>
MsgLocked == <<"Browser session is locked by another process. Please close all Chrome/Edge windows and try again, or restart VSCode.">>
MsgFailedToLaunch(m) == <<"Failed to launch browser: ">> \o m \o <<". Make sure Chromium is installed.">>
MsgFailedToLoad == <<"Failed to load Claude.ai. Please check your internet connection.">>
MsgLoginTimeout == <<"Login ", "timeout", ". Please try again and complete the login process.">>
MsgUsageTooLong == <<"Usage page took too long to load. Please try again.">>
MsgLayoutChanged == <<"Could not find usage percentage. Page layout may have changed.">>
MsgChromeRequired == <<"Chrome/Chromium required. Install Chrome or Chromium to fetch Claude.ai usage stats.">>
MsgHistoryWrite == <<"EACCES: permission denied, open 'claude-usage-history.json'">>

\* Errors of the browser automation layer.
ErrNavTimeout == <<"Navigation ", "timeout", " of 30000 ms exceeded">>
ErrNet == <<"net::ERR_INTERNET_DISCONNECTED at https://claude.ai">>
ErrAlreadyRunning == <<"The browser is ", "already running", " for the profile directory">>
ErrLaunch == <<"Failed to launch the browser process!">>
ErrTargetClosed == <<"Protocol error: Target closed">>
ErrNullPage == <<"Cannot read properties of null">>

----------------------------------------------------------------------------
(* URLs, requests and the endpoint patterns                                *)

URL_BLANK == "about:blank"
URL_BASE == "https://claude.ai"
URL_LOGIN == "https://claude.ai/login"
URL_USAGE == "https://claude.ai/settings/usage"

UsageUrl1 == "https://claude.ai/api/organizations/org1/usage"
UsageUrl2 == "https://claude.ai/api/organizations/org2/usage"
CreditsUrl == "https://claude.ai/api/organizations/org1/prepaid/credits"
OverageUrl == "https://claude.ai/api/organizations/org1/overage_spend_limit"
BootstrapUrl == "https://claude.ai/api/bootstrap"
StaticUrl == "https://claude.ai/static/app.js"

\* API_ENDPOINTS of apiSchema.js: the URLs each pattern matches.
API_ENDPOINTS == [usage |-> {UsageUrl1, UsageUrl2},
                  prepaidCredits |-> {CreditsUrl},
                  overageSpendLimit |-> {OverageUrl}]

\* matchesEndpoint(url, pattern) of apiSchema.js.
matchesEndpoint(url, pattern) == url \in pattern

\* url.includes('/api/')
IsApiUrl(url) == url \in {UsageUrl1, UsageUrl2, CreditsUrl, OverageUrl, BootstrapUrl}

\* url.includes('claude.ai') for the URLs a page of the model can be at.
OnClaudeDomain(url) == url \in {URL_BASE, URL_LOGIN, URL_USAGE}

Request(u, h) == [method |-> "GET", url |-> u, headers |-> h]

\* What the usage page requests while it loads, in the order it requests it.
UsagePageTraffic ==
    <<Request(StaticUrl, "hdrA"), Request(BootstrapUrl, "hdrA"),
      Request(UsageUrl1, "hdrA"), Request(CreditsUrl, "hdrA"),
      Request(OverageUrl, "hdrA")>>

\* The number of requests of a sequence that the request handler records.
RECURSIVE ApiCount(_)
ApiCount(reqs) ==
    IF reqs = <<>> THEN 0
    ELSE (IF IsApiUrl(Head(reqs).url) THEN 1 ELSE 0) + ApiCount(Tail(reqs))

\* The request sequences one navigation to `url` can cause on a page whose
\* handler has recorded `seen` requests so far.
TrafficOf(url, seen) ==
    IF url = URL_USAGE
    THEN {<<>>} \cup (IF seen + ApiCount(UsagePageTraffic) <= MaxRequests
                      THEN {UsagePageTraffic} ELSE {})
    ELSE {<<>>, <<Request(StaticUrl, "hdrA")>>}

----------------------------------------------------------------------------
(* The browser processes (environment).  A process launched by the scraper *)
(* is in DOMAIN browsers until it is closed or the user closes its window. *)
(* The page opened in browser i by newPage() has the handle i.             *)

NewBrowser(headed) ==
    [headed |-> headed, hasPage |-> FALSE, url |-> URL_BLANK,
     intercepting |-> FALSE, setupRuns |-> 0, gotoBeforeSetup |-> FALSE]

Without(b, i) == [j \in (DOMAIN b) \ {i} |-> b[j]]
With(b, i, rec) == [j \in (DOMAIN b) \cup {i} |-> IF j = i THEN rec ELSE b[j]]

\* A world is the scraper, its auth module and the browser processes.
World(s, a, b) == [s |-> s, a |-> a, b |-> b]

PageAlive(w, p) == p # Null /\ p \in DOMAIN w.b /\ w.b[p].hasPage

\* A handle no object of the program refers to.
FreshHandle(w) ==
    CHOOSE i \in 1..MaxHandles :
        /\ i \notin (DOMAIN w.b) \cup {w.s.browser, w.s.page, w.a.browser, w.a.page}
        /\ \A j \in 1..(i - 1) :
              j \in (DOMAIN w.b) \cup {w.s.browser, w.s.page, w.a.browser, w.a.page}

----------------------------------------------------------------------------
(* ClaudeUsageScraper (scraper.js)                                         *)

\* The constructor.
NewScraper ==
    [browser |-> Null, page |-> Null, isInitialized |-> FALSE, isConnectedBrowser |-> FALSE,
     apiEndpoint |-> NoEndpoint, apiHeaders |-> NoHeaders,
     creditsEndpoint |-> NoEndpoint, overageEndpoint |-> NoEndpoint,
     capturedEndpoints |-> <<>>]

NewAuth == [page |-> Null, browser |-> Null]

\* The handler as it would be if a slot, once filled, were kept.
onRequestFirstWins(s, request) ==
    LET url == request.url
        s1 == IF IsApiUrl(url)
              THEN [s EXCEPT !.capturedEndpoints =
                        Append(@, [method |-> request.method, url |-> url])]
              ELSE s
        s2 == IF matchesEndpoint(url, API_ENDPOINTS.usage) /\ s.apiEndpoint = NoEndpoint
              THEN [s1 EXCEPT !.apiEndpoint = url,
                              !.apiHeaders = [from |-> request.headers,
                                               contentType |-> "application/json"]]
              ELSE s1
        s3 == IF matchesEndpoint(url, API_ENDPOINTS.prepaidCredits)
                 /\ s.creditsEndpoint = NoEndpoint
              THEN [s2 EXCEPT !.creditsEndpoint = url]
              ELSE s2
        s4 == IF matchesEndpoint(url, API_ENDPOINTS.overageSpendLimit)
                 /\ s.overageEndpoint = NoEndpoint
              THEN [s3 EXCEPT !.overageEndpoint = url]
              ELSE s3
    IN  s4

\* The 'request' handler installed by setupRequestInterception.
onRequest(s, request) ==
    LET url == request.url
        s1 == IF IsApiUrl(url)
              THEN [s EXCEPT !.capturedEndpoints =
                        Append(@, [method |-> request.method, url |-> url])]
              ELSE s
        s2 == IF matchesEndpoint(url, API_ENDPOINTS.usage)
              THEN [s1 EXCEPT !.apiEndpoint = url,
                              !.apiHeaders = [from |-> request.headers,
                                               contentType |-> "application/json"]]
              ELSE s1
        s3 == IF matchesEndpoint(url, API_ENDPOINTS.prepaidCredits)
              THEN [s2 EXCEPT !.creditsEndpoint = url]
              ELSE s2
        s4 == IF matchesEndpoint(url, API_ENDPOINTS.overageSpendLimit)
              THEN [s3 EXCEPT !.overageEndpoint = url]
              ELSE s3
    IN  s4

\* The calls of request.continue() the handler makes for one request.
continueCalls(request) == 1

RECURSIVE onRequests(_, _)
onRequests(s, reqs) ==
    IF reqs = <<>> THEN s ELSE onRequests(onRequest(s, Head(reqs)), Tail(reqs))

\* A launch sequence that leaves the interception out.
interceptionLeftOut(w, interceptOk) == w

\* setupRequestInterception: setRequestInterception(true), capturedEndpoints = [],
\* page.on('request').  An exception of setRequestInterception is caught and
\* logged; the lines after it are skipped.
setupRequestInterception(w, interceptOk) ==
    LET p == w.s.page IN
    IF ~PageAlive(w, p)
    THEN w
    ELSE IF interceptOk
         THEN [w EXCEPT !.b[p].intercepting = TRUE,
                        !.b[p].setupRuns = @ + 1,
                        !.s.capturedEndpoints = <<>>]
         ELSE [w EXCEPT !.b[p].setupRuns = @ + 1]

\* page.goto(url) on the page with handle p.  outcome: "ok", "timeout" (the
\* page is loading but the network never went idle) or "neterr".
goto(w, p, url, outcome, reqs) ==
    IF p = Null
    THEN [w |-> w, err |-> ErrNullPage]
    ELSE IF ~PageAlive(w, p)
    THEN [w |-> w, err |-> ErrTargetClosed]
    ELSE LET early == w.b[p].gotoBeforeSetup \/ w.b[p].setupRuns = 0
             w1 == [w EXCEPT !.b[p].gotoBeforeSetup = early]
         IN  IF outcome = "neterr"
             THEN [w |-> w1, err |-> ErrNet]
             ELSE LET w2 == [w1 EXCEPT !.b[p].url = url,
                                       !.s = IF w.b[p].intercepting
                                             THEN onRequests(w.s, reqs) ELSE w.s]
                  IN  [w |-> w2, err |-> IF outcome = "ok" THEN NoError ELSE ErrNavTimeout]

\* close() as it would be if it looked at isInitialized before closing.
closeWhenInitialized(w) ==
    IF w.s.isInitialized /\ w.s.browser # Null
    THEN [w EXCEPT !.b = IF w.s.isConnectedBrowser THEN @ ELSE Without(@, w.s.browser),
                   !.s.browser = Null,
                   !.s.page = Null,
                   !.s.isInitialized = FALSE,
                   !.s.isConnectedBrowser = FALSE]
    ELSE w

\* close() as it would be if it dropped the browser handle alone.
closeBrowserOnly(w) ==
    IF w.s.browser # Null
    THEN [w EXCEPT !.b = IF w.s.isConnectedBrowser THEN @ ELSE Without(@, w.s.browser),
                   !.s.browser = Null]
    ELSE w

\* close(): close the launched browser, or disconnect from a shared one.
close(w) ==
    IF w.s.browser # Null
    THEN [w EXCEPT !.b = IF w.s.isConnectedBrowser THEN @ ELSE Without(@, w.s.browser),
                   !.s.browser = Null,
                   !.s.page = Null,
                   !.s.isInitialized = FALSE,
                   !.s.isConnectedBrowser = FALSE]
    ELSE w

\* reset(): close() and clear the captured endpoints.
reset(w) ==
    [close(w) EXCEPT !.s.apiEndpoint = NoEndpoint,
                     !.s.apiHeaders = NoHeaders,
                     !.s.creditsEndpoint = NoEndpoint,
                     !.s.overageEndpoint = NoEndpoint,
                     !.s.capturedEndpoints = <<>>]

\* findChrome(): the path of an executable, or null.
findChrome(chromeFound) == chromeFound

\* The catch block of initialize.
initializeCatch(msg) ==
    IF msg = NoError THEN NoError
    ELSE IF Includes(msg, "already running") THEN MsgLocked
    ELSE MsgFailedToLaunch(msg)

\* The launch sequence of initialize (and, repeated, of forceOpenBrowser):
\* findChrome, puppeteer.launch, newPage, setUserAgent,
\* setupRequestInterception, isInitialized = true, auth.setPageAndBrowser.
\* e.launch: "ok", "locked" (the profile directory is in use) or "fail";
\* e.pageSetup: "ok", "newPageFails" or "userAgentFails".  A browser of the
\* scraper that still runs holds the lock of the profile directory.
launchAndSetUp(w, headed, chromeFound, e) ==
    IF ~findChrome(chromeFound)
    THEN [w |-> w, err |-> CHROME_NOT_FOUND]
    ELSE IF e.launch = "locked" \/ DOMAIN w.b # {}
    THEN [w |-> w, err |-> ErrAlreadyRunning]
    ELSE IF e.launch = "fail"
    THEN [w |-> w, err |-> ErrLaunch]
    ELSE LET id == FreshHandle(w)
             w1 == [w EXCEPT !.b = With(@, id, NewBrowser(headed)),
                             !.s.browser = id]
             w2 == [w1 EXCEPT !.b[id].hasPage = TRUE, !.s.page = id]
             w3 == setupRequestInterception(w2, e.interceptOk)
             w4 == [w3 EXCEPT !.s.isInitialized = TRUE,
                              !.s.isConnectedBrowser = FALSE,
                              !.a = [page |-> w3.s.page, browser |-> w3.s.browser]]
         IN  IF e.pageSetup = "newPageFails" THEN [w |-> w1, err |-> ErrTargetClosed]
             ELSE IF e.pageSetup = "userAgentFails" THEN [w |-> w2, err |-> ErrTargetClosed]
             ELSE [w |-> w4, err |-> NoError]

\* initialize(forceHeaded).  browser.version() resolves iff the process runs.
initialize(w, forceHeaded, headlessCfg, chromeFound, e) ==
    LET held == w.s.isInitialized /\ w.s.browser # Null
        runs == w.s.browser \in DOMAIN w.b
        w0 == IF held
              THEN [w EXCEPT !.s.browser = Null, !.s.page = Null, !.s.isInitialized = FALSE]
              ELSE w
        headless == IF forceHeaded THEN FALSE ELSE headlessCfg
        r == launchAndSetUp(w0, ~headless, chromeFound, e)
    IN  IF held /\ runs
        THEN [w |-> w, err |-> NoError]
        ELSE [w |-> r.w, err |-> initializeCatch(r.err)]

\* forceOpenBrowser(): drop the browser held, launch a visible one and load the
\* login page.  Every failure is caught and returned as {success: false}.
forceOpenBrowser(w, chromeFound, e) ==
    LET w0 == IF w.s.browser # Null
              THEN [w EXCEPT !.b = IF w.s.isConnectedBrowser THEN @
                                   ELSE Without(@, w.s.browser),
                             !.s.browser = Null,
                             !.s.page = Null,
                             !.s.isInitialized = FALSE]
              ELSE w
        r == launchAndSetUp(w0, TRUE, chromeFound, e)
        g == goto(r.w, r.w.s.page, URL_LOGIN, e.nav, e.reqs)
    IN  IF r.err # NoError THEN [w |-> r.w, success |-> FALSE]
        ELSE IF g.err # NoError THEN [w |-> g.w, success |-> FALSE]
        ELSE [w |-> g.w, success |-> TRUE]

----------------------------------------------------------------------------
(* ClaudeAuth (auth.js)                                                    *)

NoCookie == [present |-> FALSE, expires |-> 0]

\* checkCookie() as it would be with a cookie still good at its expiry time.
checkCookieExclusive(w, cookieJar, clock, e) ==
    LET p == w.a.page
        closed == [w |-> w, exists |-> FALSE, expired |-> TRUE]
    IN  IF p = Null THEN closed
        ELSE IF ~PageAlive(w, p) THEN closed
        ELSE LET g == IF ~OnClaudeDomain(w.b[p].url)
                      THEN goto(w, p, URL_BASE, e.nav, e.reqs)
                      ELSE [w |-> w, err |-> NoError]
             IN  IF g.err # NoError THEN [closed EXCEPT !.w = g.w]
                 ELSE IF ~e.cookiesOk THEN [closed EXCEPT !.w = g.w]
                 ELSE IF ~cookieJar.present THEN [closed EXCEPT !.w = g.w]
                 ELSE [w |-> g.w, exists |-> TRUE, expired |-> cookieJar.expires < clock]

\* checkCookie(): visit the base URL if the page is not on the domain, read
\* the sessionKey cookie.  Fails closed on any error.
checkCookie(w, cookieJar, clock, e) ==
    LET p == w.a.page
        closed == [w |-> w, exists |-> FALSE, expired |-> TRUE]
    IN  IF p = Null THEN closed
        ELSE IF ~PageAlive(w, p) THEN closed
        ELSE LET g == IF ~OnClaudeDomain(w.b[p].url)
                      THEN goto(w, p, URL_BASE, e.nav, e.reqs)
                      ELSE [w |-> w, err |-> NoError]
             IN  IF g.err # NoError THEN [closed EXCEPT !.w = g.w]
                 ELSE IF ~e.cookiesOk THEN [closed EXCEPT !.w = g.w]
                 ELSE IF ~cookieJar.present THEN [closed EXCEPT !.w = g.w]
                 ELSE [w |-> g.w, exists |-> TRUE, expired |-> cookieJar.expires <= clock]

\* validateSession() as it would be without the expiry test of phase 1.
validateSessionExpiryIgnored(w, cookieJar, clock, e) ==
    LET cookieCheck == checkCookie(w, cookieJar, clock, e)
        isValid == e.api = "ok"
    IN  IF w.a.page = Null
        THEN [w |-> w, valid |-> FALSE, reason |-> "no_page", phase2 |-> FALSE]
        ELSE IF ~cookieCheck.exists
        THEN [w |-> cookieCheck.w, valid |-> FALSE, reason |-> "no_cookie", phase2 |-> FALSE]
        ELSE IF e.api = "evaluateThrows"
        THEN [w |-> cookieCheck.w, valid |-> FALSE, reason |-> "validation_error", phase2 |-> TRUE]
        ELSE [w |-> cookieCheck.w, valid |-> isValid,
              reason |-> IF isValid THEN "valid" ELSE "server_rejected", phase2 |-> TRUE]

\* validateSession(): phase 1 is checkCookie, phase 2 the credentialed fetch of
\* API_ORGS inside the page.  e.api: "ok" (response.ok), "rejected" (an error
\* status), "fetchThrows" (fetch rejects inside the page) or "evaluateThrows".
validateSession(w, cookieJar, clock, e) ==
    LET cookieCheck == checkCookie(w, cookieJar, clock, e)
        isValid == e.api = "ok"
    IN  IF w.a.page = Null
        THEN [w |-> w, valid |-> FALSE, reason |-> "no_page", phase2 |-> FALSE]
        ELSE IF ~cookieCheck.exists
        THEN [w |-> cookieCheck.w, valid |-> FALSE, reason |-> "no_cookie", phase2 |-> FALSE]
        ELSE IF cookieCheck.expired
        THEN [w |-> cookieCheck.w, valid |-> FALSE, reason |-> "cookie_expired", phase2 |-> FALSE]
        ELSE IF e.api = "evaluateThrows"
        THEN [w |-> cookieCheck.w, valid |-> FALSE, reason |-> "validation_error", phase2 |-> TRUE]
        ELSE [w |-> cookieCheck.w, valid |-> isValid,
              reason |-> IF isValid THEN "valid" ELSE "server_rejected", phase2 |-> TRUE]

----------------------------------------------------------------------------
(* The DOM text fallback of fetchUsageData.  The page text is a sequence   *)
(* of tokens: digits, "%", blank, newline, the word "used" and the words    *)
(* "Resets in " (with the first blank after them).                         *)

DomTokens == {"4", "2", "%", " ", "\n", "used", "Resets in "}
\* \d, \s and [^\n] of the regular expressions
Digits == {"0", "1", "2", "3", "4", "5", "6", "7", "8", "9"}
Spaces == {" ", "\n"}
NotNewline == DomTokens \ {"\n"}
IsSpace(c) == c \in Spaces

DigitValue(c) ==
    CASE c = "0" -> 0 [] c = "1" -> 1 [] c = "2" -> 2 [] c = "3" -> 3 [] c = "4" -> 4
      [] c = "5" -> 5 [] c = "6" -> 6 [] c = "7" -> 7 [] c = "8" -> 8 [] c = "9" -> 9

\* parseInt(digits, 10)
RECURSIVE parseInt(_)
parseInt(digits) ==
    IF digits = <<>> THEN 0
    ELSE parseInt(SubSeq(digits, 1, Len(digits) - 1)) * 10 + DigitValue(digits[Len(digits)])

\* The end of the longest run of tokens of the class from position i on
\* (i - 1 when text[i] is not of the class).
RECURSIVE RunEnd(_, _, _)
RunEnd(text, i, class) ==
    IF i <= Len(text) /\ text[i] \in class THEN RunEnd(text, i + 1, class) ELSE i - 1

\* /(\d+)%\s*used/i tried at position i: the digits captured, or <<>>.
usageMatchAt(text, i) ==
    LET d == RunEnd(text, i, Digits)
        s == RunEnd(text, d + 2, Spaces)
    IN  IF /\ d >= i
           /\ d + 1 <= Len(text) /\ text[d + 1] = "%"
           /\ s + 1 <= Len(text) /\ text[s + 1] = "used"
        THEN SubSeq(text, i, d)
        ELSE <<>>

\* A match that prefers the match starting furthest right.
RECURSIVE usageMatchRightmost(_, _)
usageMatchRightmost(text, i) ==
    IF i > Len(text) THEN <<>>
    ELSE IF usageMatchRightmost(text, i + 1) # <<>> THEN usageMatchRightmost(text, i + 1)
    ELSE usageMatchAt(text, i)

\* bodyText.match(/(\d+)%\s*used/i): the leftmost match, scanning from i.
RECURSIVE usageMatch(_, _)
usageMatch(text, i) ==
    IF i > Len(text) THEN <<>>
    ELSE IF usageMatchAt(text, i) # <<>> THEN usageMatchAt(text, i)
    ELSE usageMatch(text, i + 1)

\* The rest of /Resets?\s+in\s+([^\n]+)/i after "Resets in ": \s* gives back
\* blanks until a token that is no newline follows it.  k is the last token
\* \s* keeps (i, the position of "Resets in ", when it keeps none).
RECURSIVE resetCapture(_, _, _)
resetCapture(text, i, k) ==
    IF k + 1 <= Len(text) /\ text[k + 1] \in NotNewline
    THEN <<SubSeq(text, k + 1, RunEnd(text, k + 1, NotNewline))>>
    ELSE IF k > i THEN resetCapture(text, i, k - 1)
    ELSE <<>>

\* bodyText.match(/Resets?\s+in\s+([^\n]+)/i): <<capture>> of the leftmost
\* match, or <<>>.
RECURSIVE resetMatch(_, _)
resetMatch(text, i) ==
    IF i > Len(text) THEN <<>>
    ELSE IF text[i] = "Resets in "
            /\ resetCapture(text, i, RunEnd(text, i + 1, Spaces)) # <<>>
    THEN resetCapture(text, i, RunEnd(text, i + 1, Spaces))
    ELSE resetMatch(text, i + 1)

\* String.prototype.trim on a capture (which holds no newline).
RECURSIVE trim(_)
trim(str) ==
    IF str = <<>> THEN str
    ELSE IF IsSpace(Head(str)) THEN trim(Tail(str))
    ELSE IF IsSpace(str[Len(str)]) THEN trim(SubSeq(str, 1, Len(str) - 1))
    ELSE str

\* The function evaluated in the page: usagePercent and resetTime, each
\* <<value>> or <<>> for null.
evaluateDom(text) ==
    LET um == usageMatch(text, 1)
        rm == resetMatch(text, 1)
    IN  [usagePercent |-> IF um # <<>> THEN <<parseInt(um)>> ELSE <<>>,
         resetTime |-> IF rm # <<>> THEN <<trim(rm[1])>> ELSE <<>>]

Unknown == <<"Unknown">>
NoRecord == [usagePercent |-> -1, resetTime |-> <<>>, prepaidCredits |-> "undefined",
             monthlyCredits |-> "undefined", rawData |-> "undefined"]

\* The fallback of fetchUsageData: the record built from the page text, or the
\* layout-changed error.  resetTime || 'Unknown': null and '' give 'Unknown'.
domFallback(text) ==
    LET data == evaluateDom(text) IN
    IF data.usagePercent = <<>>
    THEN [err |-> MsgLayoutChanged, data |-> NoRecord]
    ELSE [err |-> NoError,
          data |-> [usagePercent |-> data.usagePercent[1],
                    resetTime |-> IF data.resetTime = <<>> \/ data.resetTime[1] = <<>>
                                  THEN Unknown ELSE data.resetTime[1],
                    prepaidCredits |-> "undefined",
                    monthlyCredits |-> "undefined",
                    rawData |-> "undefined"]]

----------------------------------------------------------------------------
(* fetchUsageData (scraper.js)                                             *)

GoodPayload == [five_hour |-> [utilization |-> 17, resets_at |-> "2025-12-01T10:00:00Z"]]
BadPayload == [five_hour |-> [utilization |-> -1, resets_at |-> "malformed"]]

\* processOverageData of apiSchema.js: absent data gives no monthly credits.
processOverageData(overageData) ==
    IF overageData = "null" THEN "null" ELSE "monthlyCredits"

\* processApiResponse: the record of the API path; every exception of the
\* extraction is rethrown as 'Failed to process API response data'.
processApiResponse(apiResponse, creditsData, overageData) ==
    IF apiResponse = BadPayload
    THEN [err |-> <<"Failed to process API response data">>, data |-> NoRecord]
    ELSE [err |-> NoError,
          data |-> [usagePercent |-> apiResponse.five_hour.utilization,
                    resetTime |-> <<"2h 30m">>,
                    prepaidCredits |-> creditsData,
                    monthlyCredits |-> processOverageData(overageData),
                    rawData |-> "apiResponse"]]

\* A secondary replay (credits, overage): resp.ok ? json : null, and null when
\* the evaluate call throws or the endpoint was not captured.
secondaryReplay(endpoint, outcome) ==
    IF endpoint # NoEndpoint /\ outcome = "ok" THEN "json" ELSE "null"

\* The try block of the API path as it would be without the try/catch around
\* each secondary replay: an exception of one of them ends the API path.
replayApiSecondaryFatal(s, e) ==
    LET creditsData == secondaryReplay(s.creditsEndpoint, e.credits)
        overageData == secondaryReplay(s.overageEndpoint, e.overage)
        response == IF e.usage = "ok" THEN GoodPayload ELSE BadPayload
        processed == processApiResponse(response, creditsData, overageData)
        failed == [ok |-> FALSE, data |-> NoRecord]
    IN  IF ~e.cookiesOk THEN failed
        ELSE IF e.usage \in {"notOk", "throws"} THEN failed
        ELSE IF s.creditsEndpoint # NoEndpoint /\ e.credits = "throws" THEN failed
        ELSE IF s.overageEndpoint # NoEndpoint /\ e.overage = "throws" THEN failed
        ELSE IF processed.err # NoError THEN failed
        ELSE [ok |-> TRUE, data |-> processed.data]

\* The try block of the API path: cookies, the usage replay, the two
\* secondary replays, processApiResponse.  ok = FALSE: an exception reached
\* the catch that falls through to the DOM fallback.
replayApi(s, e) ==
    LET creditsData == secondaryReplay(s.creditsEndpoint, e.credits)
        overageData == secondaryReplay(s.overageEndpoint, e.overage)
        response == IF e.usage = "ok" THEN GoodPayload ELSE BadPayload
        processed == processApiResponse(response, creditsData, overageData)
        failed == [ok |-> FALSE, data |-> NoRecord]
    IN  IF ~e.cookiesOk THEN failed
        ELSE IF e.usage \in {"notOk", "throws"} THEN failed
        ELSE IF processed.err # NoError THEN failed
        ELSE [ok |-> TRUE, data |-> processed.data]

\* The outer catch of fetchUsageData.
fetchUsageDataCatch(msg) ==
    IF msg = NoError THEN NoError
    ELSE IF Includes(msg, "timeout") THEN MsgUsageTooLong
    ELSE msg

\* fetchUsageData() as it would be if the error of the API path were thrown on.
fetchUsageDataNoFallback(w, e) ==
    LET g == goto(w, w.s.page, URL_USAGE, e.nav, e.reqs)
        s == g.w.s
        captured == s.apiEndpoint # NoEndpoint /\ s.apiHeaders # NoHeaders
        api == replayApi(s, e)
        dom == IF e.domOk THEN domFallback(e.text)
               ELSE [err |-> ErrTargetClosed, data |-> NoRecord]
    IN  IF g.err # NoError
        THEN [w |-> g.w, err |-> fetchUsageDataCatch(g.err), data |-> NoRecord,
              path |-> "nav", captured |-> FALSE]
        ELSE IF captured
        THEN [w |-> g.w, err |-> IF api.ok THEN NoError ELSE <<"API request failed">>,
              data |-> api.data, path |-> "api", captured |-> TRUE]
        ELSE [w |-> g.w, err |-> fetchUsageDataCatch(dom.err), data |-> dom.data,
              path |-> "dom", captured |-> captured]

\* fetchUsageData(): load the usage page, replay the captured endpoint, fall
\* back to the page text.  path: "nav" (the page load failed), "api", "dom".
fetchUsageData(w, e) ==
    LET g == goto(w, w.s.page, URL_USAGE, e.nav, e.reqs)
        s == g.w.s
        captured == s.apiEndpoint # NoEndpoint /\ s.apiHeaders # NoHeaders
        api == replayApi(s, e)
        dom == IF e.domOk THEN domFallback(e.text)
               ELSE [err |-> ErrTargetClosed, data |-> NoRecord]
    IN  IF g.err # NoError
        THEN [w |-> g.w, err |-> fetchUsageDataCatch(g.err), data |-> NoRecord,
              path |-> "nav", captured |-> FALSE]
        ELSE IF captured /\ api.ok
        THEN [w |-> g.w, err |-> NoError, data |-> api.data,
              path |-> "api", captured |-> TRUE]
        ELSE [w |-> g.w, err |-> fetchUsageDataCatch(dom.err), data |-> dom.data,
              path |-> "dom", captured |-> captured]

\* The catch block of ensureLoggedIn.
ensureLoggedInCatch(msg) ==
    IF msg = NoError THEN NoError
    ELSE IF Includes(msg, "timeout") THEN MsgFailedToLoad
    ELSE msg

\* The catch block of fetchUsage: the error returned as webError.
fetchUsageCatch(msg) ==
    IF msg = CHROME_NOT_FOUND THEN MsgChromeRequired ELSE msg

----------------------------------------------------------------------------
(* Spec: UsageDataProvider.fetchUsage (dataProvider.js) step by step, and  *)
(* the commands of extension.js between two cycles.                        *)

\* What a launch sequence meets: whether findChrome finds an executable, the
\* 'headless' setting read from the configuration, the outcome of
\* puppeteer.launch, of the page set-up and of setRequestInterception.
\* An input the sequence does not get to is fixed.
LaunchEnv ==
    {e \in [chromeFound : BOOLEAN,
            headlessCfg : BOOLEAN,
            launch : {"ok", "locked", "fail"},
            pageSetup : {"ok", "newPageFails", "userAgentFails"},
            interceptOk : BOOLEAN] :
        /\ ~e.chromeFound => e.launch = "ok"
        /\ e.launch # "ok" \/ ~e.chromeFound => e.pageSetup = "ok" /\ e.headlessCfg
        /\ e.pageSetup # "ok" => e.interceptOk}
NavOutcomes == {"ok", "timeout", "neterr"}

\* The page texts the fallback meets in a cycle.
CycleTexts == {<<"4", "2", "%", " ", "used">>, <<"used">>}

\* What fetchUsageData meets: the page load, the reading of the cookies, the
\* three replays, the evaluation of the page text.  An input the call does not
\* get to is fixed: nothing after a failed step of the API path but the
\* fallback, no fallback after a usage replay that succeeded.
ReplayEnv(seen) ==
    {e \in [nav : NavOutcomes,
            reqs : TrafficOf(URL_USAGE, seen),
            cookiesOk : BOOLEAN,
            usage : {"ok", "badPayload", "notOk", "throws"},
            credits : {"ok", "notOk", "throws"},
            overage : {"ok", "notOk", "throws"},
            domOk : BOOLEAN,
            text : CycleTexts] :
        /\ ~e.cookiesOk => e.usage = "throws"
        /\ e.usage # "ok" => e.credits = "ok" /\ e.overage = "ok"
        /\ e.usage = "ok" => e.domOk /\ e.text = <<"used">>
        /\ ~e.domOk => e.text = <<"used">>}

\* No cycle in flight.  `before` remembers what usageData was when the cycle
\* in flight was started, `opened` what forceOpenBrowser returned in it,
\* `relogin` whether the user has logged in during its login wait.
IdleCycle ==
    [pc |-> "idle", err |-> NoError, webError |-> NoError, reason |-> "none",
     phase2 |-> FALSE, validated |-> FALSE, ensured |-> FALSE, loggedIn |-> "none",
     elapsed |-> 0, launched |-> FALSE, chromeMissing |-> FALSE,
     relaunchHeadless |-> TRUE, api |-> "none", read |-> "none", before |-> NoRecord,
     opened |-> "none", relogin |-> FALSE]

NewProvider == [usageData |-> NoRecord]

InitFetch ==
    /\ scraper = NewScraper
    /\ auth = NewAuth
    /\ browsers = <<>>
    /\ jar = NoCookie
    /\ now = 0
    /\ cycle = IdleCycle
    /\ provider = NewProvider
InitReplay == replay = [state |-> "off"]
InitDom == domText = <<>> /\ domResult = [state |-> "off"]
InitLoader == fsys = [state |-> "off"] /\ loader = [state |-> "off"] /\ snapshot = [state |-> "off"]
InitSession == profile = [state |-> "off"]
InitRecords == usageLog = [state |-> "off"]
InitRefresh == refresh = [state |-> "off"]
InitDisplay == display = [state |-> "off"]
InitProjects == projects = [state |-> "off"]
InitBar == bar = [state |-> "off"]
InitCaller == caller = [state |-> "off"]
InitHistory == history = [state |-> "off"]
InitTracker == tracker = [state |-> "off"]
InitRoots == roots = [state |-> "off"]
InitScan == scan = [state |-> "off"]

\* The extension is activated; the profile directory may hold the cookie of an
\* earlier run, which expires at the first tick.
Init ==
    /\ scraper = NewScraper
    /\ auth = NewAuth
    /\ browsers = <<>>
    /\ jar \in {NoCookie, [present |-> TRUE, expires |-> 1]}
    /\ now = 0
    /\ cycle = IdleCycle
    /\ provider = NewProvider
    /\ InitReplay
    /\ InitDom
    /\ InitLoader
    /\ InitSession
    /\ InitRecords
    /\ InitRefresh
    /\ InitDisplay
    /\ InitProjects
    /\ InitBar
    /\ InitCaller
    /\ InitHistory
    /\ InitTracker
    /\ InitRoots
    /\ InitScan

W == World(scraper, auth, browsers)

\* The world a step leaves becomes the state.
Apply(w) ==
    /\ scraper' = w.s
    /\ auth' = w.a
    /\ browsers' = w.b

\* Whether the step that leaves w started a browser process.
Launched(w) == cycle.launched \/ ~(DOMAIN w.b \subseteq DOMAIN browsers)

Seen == Len(scraper.capturedEndpoints)

\* An exception inside the try block of fetchUsage.
Throw(c, msg) == [c EXCEPT !.pc = "catch", !.err = msg]

\* ensureLoggedIn is over: its locals are gone.
Leave(c) ==
    [c EXCEPT !.reason = "none", !.phase2 = FALSE, !.elapsed = 0, !.relaunchHeadless = TRUE,
              !.api = "none", !.read = "none"]

\* fetchUsage is called (startup, timer or the fetchNow command).
FetchUsage ==
    /\ cycle.pc = "idle"
    /\ cycle' = [IdleCycle EXCEPT !.pc = "initialize", !.before = provider.usageData]
    /\ UNCHANGED <<scraper, auth, browsers, jar, now, provider, replayVars, domVars, loaderVars, sessionVars, recordVars, scanVars, rootVars, trackerVars, historyVars, callerVars, barVars, projectVars, displayVars, refreshVars>>

\* fetchUsage as it would be without the call of ensureLoggedIn.
InitializeThenFetch ==
    /\ cycle.pc = "initialize"
    /\ \E e \in LaunchEnv :
         LET r == initialize(W, FALSE, e.headlessCfg, e.chromeFound, e)
             c == [cycle EXCEPT !.launched = Launched(r.w)]
         IN
         /\ Apply(r.w)
         /\ cycle' = IF r.err = NoError
                     THEN [c EXCEPT !.pc = "fetchUsageData"]
                     ELSE Throw(c, r.err)
    /\ UNCHANGED <<jar, now, provider, replayVars, domVars, loaderVars, sessionVars, recordVars, scanVars, rootVars, trackerVars, historyVars, callerVars, barVars, projectVars, displayVars, refreshVars>>

\* await this.scraper.initialize(false)
Initialize ==
    /\ cycle.pc = "initialize"
    /\ \E e \in LaunchEnv :
         LET r == initialize(W, FALSE, e.headlessCfg, e.chromeFound, e)
             reused == scraper.isInitialized /\ scraper.browser \in DOMAIN browsers
             c == [cycle EXCEPT !.launched = Launched(r.w),
                                !.chromeMissing = ~reused /\ ~findChrome(e.chromeFound)]
         IN
         /\ Apply(r.w)
         /\ cycle' = IF r.err = NoError
                     THEN [c EXCEPT !.pc = "validateSession"]
                     ELSE Throw(c, r.err)
    /\ UNCHANGED <<jar, now, provider, replayVars, domVars, loaderVars, sessionVars, recordVars, scanVars, rootVars, trackerVars, historyVars, callerVars, barVars, projectVars, displayVars, refreshVars>>

\* ensureLoggedIn: const validation = await this.auth.validateSession()
\* cycle.api remembers what the credentialed fetch of phase 2 did, while the
\* local `validation` is still read.
ValidateSession ==
    /\ cycle.pc = "validateSession"
    /\ \E nav \in NavOutcomes, reqs \in TrafficOf(URL_BASE, Seen), cookiesOk \in BOOLEAN,
          api \in {"ok", "rejected", "fetchThrows", "evaluateThrows"} :
         LET v == validateSession(W, jar, now,
                      [nav |-> nav, reqs |-> reqs, cookiesOk |-> cookiesOk, api |-> api])
         IN
         /\ Apply(v.w)
         /\ cycle' = [cycle EXCEPT !.pc = IF v.valid THEN "gotoUsage" ELSE "forceOpenBrowser",
                                   !.reason = v.reason,
                                   !.phase2 = v.phase2,
                                   !.api = IF v.phase2 THEN api ELSE "none",
                                   !.validated = TRUE]
    /\ UNCHANGED <<jar, now, provider, replayVars, domVars, loaderVars, sessionVars, recordVars, scanVars, rootVars, trackerVars, historyVars, callerVars, barVars, projectVars, displayVars, refreshVars>>

\* ensureLoggedIn, session valid: page.goto(USAGE) and return.
GotoUsage ==
    /\ cycle.pc = "gotoUsage"
    /\ \E nav \in NavOutcomes, reqs \in TrafficOf(URL_USAGE, Seen) :
         LET g == goto(W, scraper.page, URL_USAGE, nav, reqs) IN
         /\ Apply(g.w)
         /\ cycle' = IF g.err = NoError
                     THEN [Leave(cycle) EXCEPT !.pc = "fetchUsageData", !.ensured = TRUE]
                     ELSE Throw(Leave(cycle), ensureLoggedInCatch(g.err))
    /\ UNCHANGED <<jar, now, provider, replayVars, domVars, loaderVars, sessionVars, recordVars, scanVars, rootVars, trackerVars, historyVars, callerVars, barVars, projectVars, displayVars, refreshVars>>

\* ensureLoggedIn, session invalid: await this.forceOpenBrowser(); its result
\* is not looked at.
ForceOpenBrowser ==
    /\ cycle.pc = "forceOpenBrowser"
    /\ \E e \in LaunchEnv, nav \in NavOutcomes, reqs \in TrafficOf(URL_LOGIN, 0) :
         LET r == forceOpenBrowser(W, e.chromeFound,
                      [launch |-> e.launch, pageSetup |-> e.pageSetup,
                       interceptOk |-> e.interceptOk, nav |-> nav, reqs |-> reqs])
         IN
         /\ Apply(r.w)
         /\ cycle' = [cycle EXCEPT !.pc = "waitForLogin", !.elapsed = 0,
                                   !.api = "none",
                                   !.launched = Launched(r.w),
                                   !.opened = IF r.success THEN "true" ELSE "false"]
    /\ UNCHANGED <<jar, now, provider, replayVars, domVars, loaderVars, sessionVars, recordVars, scanVars, rootVars, trackerVars, historyVars, callerVars, barVars, projectVars, displayVars, refreshVars>>

\* waitForLogin as it would be if a failed read of the cookies ended the wait.
WaitForLoginPollErrorEnds ==
    /\ cycle.pc = "waitForLogin"
    /\ cycle.elapsed < LoginWait
    /\ \E cookiesOk \in BOOLEAN :
         LET readable == PageAlive(W, auth.page) /\ cookiesOk
             hasSessionKey == readable /\ jar.present
         IN  cycle' = IF hasSessionKey
                      THEN [cycle EXCEPT !.pc = "relaunchClose", !.loggedIn = "true",
                                         !.elapsed = @ + LoginPoll, !.read = "none"]
                      ELSE IF ~readable
                      THEN [Throw(Leave(cycle), ensureLoggedInCatch(MsgLoginTimeout)) EXCEPT
                                !.loggedIn = "false"]
                      ELSE [cycle EXCEPT !.elapsed = @ + LoginPoll, !.read = "empty"]
    /\ UNCHANGED <<scraper, auth, browsers, jar, now, provider, replayVars, domVars, loaderVars, sessionVars, recordVars, scanVars, rootVars, trackerVars, historyVars, callerVars, barVars, projectVars, displayVars, refreshVars>>

\* waitForLogin: one turn of the loop: sleep(pollInterval), read the cookies of
\* auth's page, return true when sessionKey is among them.  A failed read is
\* logged and the loop goes on.  cycle.read remembers what the last poll that
\* did not return has read: nothing ("error") or a jar without sessionKey.
WaitForLoginPoll ==
    /\ cycle.pc = "waitForLogin"
    /\ cycle.elapsed < LoginWait
    /\ \E cookiesOk \in BOOLEAN :
         LET readable == PageAlive(W, auth.page) /\ cookiesOk
             hasSessionKey == readable /\ jar.present
         IN  cycle' = IF hasSessionKey
                      THEN [cycle EXCEPT !.pc = "relaunchClose", !.loggedIn = "true",
                                         !.elapsed = @ + LoginPoll, !.read = "none"]
                      ELSE [cycle EXCEPT !.elapsed = @ + LoginPoll,
                                         !.read = IF readable THEN "empty" ELSE "error"]
    /\ UNCHANGED <<scraper, auth, browsers, jar, now, provider, replayVars, domVars, loaderVars, sessionVars, recordVars, scanVars, rootVars, trackerVars, historyVars, callerVars, barVars, projectVars, displayVars, refreshVars>>

\* waitForLogin: maxWait has elapsed: return false; ensureLoggedIn throws the
\* login timeout inside its try block.
WaitForLoginTimeout ==
    /\ cycle.pc = "waitForLogin"
    /\ cycle.elapsed >= LoginWait
    /\ cycle' = [Throw(Leave(cycle), ensureLoggedInCatch(MsgLoginTimeout)) EXCEPT
                     !.loggedIn = "false"]
    /\ UNCHANGED <<scraper, auth, browsers, jar, now, provider, replayVars, domVars, loaderVars, sessionVars, recordVars, scanVars, rootVars, trackerVars, historyVars, callerVars, barVars, projectVars, displayVars, refreshVars>>

\* ensureLoggedIn after the login as it would be without the call of close():
\* initialize finds the login browser running and keeps it.
RelaunchWithoutClose ==
    /\ cycle.pc = "relaunchClose"
    /\ cycle' = [cycle EXCEPT !.pc = "relaunchInitialize"]
    /\ UNCHANGED <<scraper, auth, browsers, jar, now, provider, replayVars, domVars, loaderVars, sessionVars, recordVars, scanVars, rootVars, trackerVars, historyVars, callerVars, barVars, projectVars, displayVars, refreshVars>>

\* ensureLoggedIn after the login: await this.close()
RelaunchClose ==
    /\ cycle.pc = "relaunchClose"
    /\ Apply(close(W))
    /\ cycle' = [cycle EXCEPT !.pc = "relaunchInitialize"]
    /\ UNCHANGED <<jar, now, provider, replayVars, domVars, loaderVars, sessionVars, recordVars, scanVars, rootVars, trackerVars, historyVars, callerVars, barVars, projectVars, displayVars, refreshVars>>

\* ensureLoggedIn after the login: await this.initialize(false)
RelaunchInitialize ==
    /\ cycle.pc = "relaunchInitialize"
    /\ \E e \in LaunchEnv :
         LET r == initialize(W, FALSE, e.headlessCfg, e.chromeFound, e)
             c == [cycle EXCEPT !.launched = Launched(r.w),
                                !.relaunchHeadless = e.headlessCfg]
         IN
         /\ Apply(r.w)
         /\ cycle' = IF r.err = NoError
                     THEN [c EXCEPT !.pc = "relaunchGotoUsage"]
                     ELSE Throw(Leave(c), ensureLoggedInCatch(r.err))
    /\ UNCHANGED <<jar, now, provider, replayVars, domVars, loaderVars, sessionVars, recordVars, scanVars, rootVars, trackerVars, historyVars, callerVars, barVars, projectVars, displayVars, refreshVars>>

\* ensureLoggedIn after the login: page.goto(USAGE) on the new page.
RelaunchGotoUsage ==
    /\ cycle.pc = "relaunchGotoUsage"
    /\ \E nav \in NavOutcomes, reqs \in TrafficOf(URL_USAGE, Seen) :
         LET g == goto(W, scraper.page, URL_USAGE, nav, reqs) IN
         /\ Apply(g.w)
         /\ cycle' = IF g.err = NoError
                     THEN [Leave(cycle) EXCEPT !.pc = "fetchUsageData", !.ensured = TRUE]
                     ELSE Throw(Leave(cycle), ensureLoggedInCatch(g.err))
    /\ UNCHANGED <<jar, now, provider, replayVars, domVars, loaderVars, sessionVars, recordVars, scanVars, rootVars, trackerVars, historyVars, callerVars, barVars, projectVars, displayVars, refreshVars>>

\* this.usageData = await this.scraper.fetchUsageData()
FetchUsageData ==
    /\ cycle.pc = "fetchUsageData"
    /\ \E e \in ReplayEnv(Seen) :
         LET r == fetchUsageData(W, e) IN
         /\ Apply(r.w)
         /\ cycle' = IF r.err = NoError
                     THEN [cycle EXCEPT !.pc = "addDataPoint"]
                     ELSE Throw(cycle, r.err)
         /\ provider' = IF r.err = NoError
                        THEN [provider EXCEPT !.usageData = r.data]
                        ELSE provider
    /\ UNCHANGED <<jar, now, replayVars, domVars, loaderVars, sessionVars, recordVars, scanVars, rootVars, trackerVars, historyVars, callerVars, barVars, projectVars, displayVars, refreshVars>>

\* usageHistory.addDataPoint: load, push, keep the last maxDataPoints, save.
\* The write of the history file can fail.
addDataPoint(writeOk) == IF writeOk THEN NoError ELSE MsgHistoryWrite

\* if (this.usageData) await this.usageHistory.addDataPoint(...)
AddDataPoint ==
    /\ cycle.pc = "addDataPoint"
    /\ \E writeOk \in BOOLEAN :
         cycle' = IF addDataPoint(writeOk) = NoError
                  THEN [cycle EXCEPT !.pc = "finally"]
                  ELSE Throw(cycle, addDataPoint(writeOk))
    /\ UNCHANGED <<scraper, auth, browsers, jar, now, provider, replayVars, domVars, loaderVars, sessionVars, recordVars, scanVars, rootVars, trackerVars, historyVars, callerVars, barVars, projectVars, displayVars, refreshVars>>

\* The catch block of fetchUsage.  usageData is kept (null stays null).
FetchUsageCatch ==
    /\ cycle.pc = "catch"
    /\ cycle' = [cycle EXCEPT !.pc = "finally", !.webError = fetchUsageCatch(cycle.err)]
    /\ UNCHANGED <<scraper, auth, browsers, jar, now, provider, replayVars, domVars, loaderVars, sessionVars, recordVars, scanVars, rootVars, trackerVars, historyVars, callerVars, barVars, projectVars, displayVars, refreshVars>>

\* finally { await this.scraper.close() }; this.refresh(); return { webError }
FetchUsageFinally ==
    /\ cycle.pc = "finally"
    /\ Apply(close(W))
    /\ cycle' = [cycle EXCEPT !.pc = "done"]
    /\ UNCHANGED <<jar, now, provider, replayVars, domVars, loaderVars, sessionVars, recordVars, scanVars, rootVars, trackerVars, historyVars, callerVars, barVars, projectVars, displayVars, refreshVars>>

\* The caller (performFetch) has taken the result.
FetchUsageReturn ==
    /\ cycle.pc = "done"
    /\ cycle' = IdleCycle
    /\ UNCHANGED <<scraper, auth, browsers, jar, now, provider, replayVars, domVars, loaderVars, sessionVars, recordVars, scanVars, rootVars, trackerVars, historyVars, callerVars, barVars, projectVars, displayVars, refreshVars>>

\* extension.js, command resetConnection: scraper.reset()
ResetConnection ==
    /\ cycle.pc = "idle"
    /\ Apply(reset(W))
    /\ UNCHANGED <<jar, now, cycle, provider, replayVars, domVars, loaderVars, sessionVars, recordVars, scanVars, rootVars, trackerVars, historyVars, callerVars, barVars, projectVars, displayVars, refreshVars>>

\* extension.js, command clearSession: scraper.clearSession(), that is reset()
\* and the removal of the profile directory (which can fail).
ClearSession ==
    /\ cycle.pc = "idle"
    /\ Apply(reset(W))
    /\ \E removed \in BOOLEAN : jar' = IF removed THEN NoCookie ELSE jar
    /\ UNCHANGED <<now, cycle, provider, replayVars, domVars, loaderVars, sessionVars, recordVars, scanVars, rootVars, trackerVars, historyVars, callerVars, barVars, projectVars, displayVars, refreshVars>>

\* extension.js, command openBrowser: scraper.forceOpenBrowser()
OpenBrowser ==
    /\ cycle.pc = "idle"
    /\ \E e \in LaunchEnv, nav \in NavOutcomes, reqs \in TrafficOf(URL_LOGIN, 0) :
         Apply(forceOpenBrowser(W, e.chromeFound,
                   [launch |-> e.launch, pageSetup |-> e.pageSetup,
                    interceptOk |-> e.interceptOk, nav |-> nav, reqs |-> reqs]).w)
    /\ UNCHANGED <<jar, now, cycle, provider, replayVars, domVars, loaderVars, sessionVars, recordVars, scanVars, rootVars, trackerVars, historyVars, callerVars, barVars, projectVars, displayVars, refreshVars>>

\* Environment: the user closes the window of a visible browser, or the
\* browser process dies.
BrowserExits ==
    /\ \E i \in DOMAIN browsers : browsers' = Without(browsers, i)
    /\ UNCHANGED <<scraper, auth, jar, now, cycle, provider, replayVars, domVars, loaderVars, sessionVars, recordVars, scanVars, rootVars, trackerVars, historyVars, callerVars, barVars, projectVars, displayVars, refreshVars>>

\* Environment: the user completes the login in a visible browser; the
\* service sets a sessionKey cookie that expires one tick later.
UserLogsIn ==
    /\ \E i \in DOMAIN browsers :
         /\ browsers[i].headed /\ browsers[i].hasPage
         /\ browsers[i].url = URL_LOGIN
    /\ jar' = [present |-> TRUE, expires |-> now + 1]
    /\ cycle' = IF cycle.pc = "waitForLogin" THEN [cycle EXCEPT !.relogin = TRUE] ELSE cycle
    /\ UNCHANGED <<scraper, auth, browsers, now, provider, replayVars, domVars, loaderVars, sessionVars, recordVars, scanVars, rootVars, trackerVars, historyVars, callerVars, barVars, projectVars, displayVars, refreshVars>>

\* Environment: time passes between two cycles.
Tick ==
    /\ cycle.pc = "idle"
    /\ now < MaxTime
    /\ now' = now + 1
    /\ UNCHANGED <<scraper, auth, browsers, jar, cycle, provider, replayVars, domVars, loaderVars, sessionVars, recordVars, scanVars, rootVars, trackerVars, historyVars, callerVars, barVars, projectVars, displayVars, refreshVars>>

Next ==
    \/ FetchUsage \/ Initialize \/ ValidateSession \/ GotoUsage
    \/ ForceOpenBrowser \/ WaitForLoginPoll \/ WaitForLoginTimeout
    \/ RelaunchClose \/ RelaunchInitialize \/ RelaunchGotoUsage
    \/ FetchUsageData \/ AddDataPoint
    \/ FetchUsageCatch \/ FetchUsageFinally \/ FetchUsageReturn
    \/ ResetConnection \/ ClearSession \/ OpenBrowser
    \/ BrowserExits \/ UserLogsIn \/ Tick

Spec == Init /\ [][Next]_vars

\* The same program with the scheduling of waitForLogin's loop: the timer of
\* sleep(pollIntervalMs) fires and page.cookies() settles (puppeteer rejects a
\* call that is not answered within its protocol timeout), so a turn of the
\* loop that can be taken is taken, and so is the return after the loop.
SpecFair ==
    Init /\ [][Next]_vars /\ WF_vars(WaitForLoginPoll) /\ WF_vars(WaitForLoginTimeout)

----------------------------------------------------------------------------
(* Properties of the fetch cycle (Spec)                                    *)

\* C2: validateSession is two-phase with short-circuit.  A call that finds no
\* session cookie answers no_cookie, a call that finds an expired one answers
\* cookie_expired, neither issues the credentialed fetch of phase 2, and
\* phase 2 is issued only when a cookie exists that has not expired.
C2_TwoPhaseShortCircuit ==
    [][cycle.pc = "validateSession" /\ cycle'.pc # "validateSession" =>
          /\ ~jar.present => cycle'.reason = "no_cookie"
          /\ cycle'.reason = "cookie_expired" => jar.present /\ jar.expires <= now
          /\ jar.present /\ jar.expires <= now =>
                 cycle'.reason \in {"no_cookie", "cookie_expired"}
          /\ cycle'.reason \in {"no_cookie", "cookie_expired"} =>
                 ~cycle'.phase2 /\ cycle'.pc = "forceOpenBrowser"
          /\ cycle'.phase2 => jar.present /\ jar.expires > now]_vars

\* A validation that stopped at an expired cookie.
C2_Witness ==
    /\ cycle.pc = "forceOpenBrowser"
    /\ cycle.reason = "cookie_expired"
    /\ ~cycle.phase2

C4_AuthPrecedesFetch ==
    cycle.pc \in {"fetchUsageData", "addDataPoint"} => cycle.validated /\ cycle.ensured

\* The data fetch has returned a record in a cycle whose login check passed.
C4_Witness ==
    /\ cycle.pc = "addDataPoint"
    /\ cycle.ensured
    /\ provider.usageData # NoRecord

\* C5: on every page, setupRequestInterception has run once, and no page.goto
\* happened before it ran.
C5_InterceptionBeforeNavigation ==
    \A i \in DOMAIN browsers :
        /\ browsers[i].setupRuns <= 1
        /\ ~browsers[i].gotoBeforeSetup
        /\ browsers[i].url # URL_BLANK => browsers[i].setupRuns = 1

\* The page of the login browser, opened in a cycle by forceOpenBrowser, has
\* been navigated to the login URL after its set-up.
C5_Witness ==
    /\ cycle.pc = "waitForLogin"
    /\ \E i \in DOMAIN browsers :
          /\ browsers[i].headed
          /\ browsers[i].url = URL_LOGIN
          /\ browsers[i].setupRuns = 1
          /\ browsers[i].intercepting

\* C9: when no Chrome executable is found the cycle launches nothing and
\* fetchUsage returns the Chrome-required message as webError.
C9_ChromeRequiredSurfaced ==
    cycle.chromeMissing =>
        /\ ~cycle.launched
        /\ cycle.pc = "done" => cycle.webError = MsgChromeRequired

\* A cycle that found no Chrome executable has completed without a launch.
C9_Witness ==
    /\ cycle.pc = "done"
    /\ cycle.chromeMissing
    /\ ~cycle.launched
    /\ cycle.webError # NoError

\* C10: when waitForLogin returned false, fetchUsage returns the login-timeout
\* error as webError.
C10_LoginTimeoutSurfaced ==
    cycle.pc = "done" /\ cycle.loggedIn = "false" => cycle.webError = MsgLoginTimeout

\* A cycle in which waitForLogin returned false has completed with an error.
C10_Witness ==
    /\ cycle.pc = "done"
    /\ cycle.loggedIn = "false"
    /\ cycle.validated
    /\ cycle.webError # NoError

C12_StaleCaptureCleared ==
    [][scraper'.page # scraper.page /\ scraper'.page # Null =>
          /\ scraper'.apiEndpoint = NoEndpoint
          /\ scraper'.apiHeaders = NoHeaders
          /\ scraper'.creditsEndpoint = NoEndpoint
          /\ scraper'.overageEndpoint = NoEndpoint
          /\ scraper'.capturedEndpoints = <<>>]_vars

\* A cycle has reached fetchUsageData on a page that issued no API request,
\* with a usage endpoint in the scraper.
C12_Witness ==
    /\ cycle.pc = "fetchUsageData"
    /\ scraper.page \in DOMAIN browsers
    /\ scraper.capturedEndpoints = <<>>
    /\ scraper.apiEndpoint # NoEndpoint

\* C14: phase 2 of validateSession maps what the credentialed fetch did to
\* the result: response.ok gives valid/'valid', an error status gives
\* 'server_rejected', and an exception of the fetch gives 'validation_error',
\* whether fetch rejects inside the page or page.evaluate itself throws; in
\* each case validateSession returns (the cycle goes on to its next step).
C14_Phase2Reasons ==
    cycle.phase2 /\ cycle.api # "none" =>
        /\ cycle.api = "ok" => cycle.reason = "valid" /\ cycle.pc = "gotoUsage"
        /\ cycle.api = "rejected" =>
               cycle.reason = "server_rejected" /\ cycle.pc = "forceOpenBrowser"
        /\ cycle.api \in {"fetchThrows", "evaluateThrows"} =>
               cycle.reason = "validation_error" /\ cycle.pc = "forceOpenBrowser"

\* fetch has rejected inside the page and validateSession has returned.
C14_Witness ==
    /\ cycle.pc = "forceOpenBrowser" /\ cycle.phase2
    /\ cycle.api = "fetchThrows" /\ cycle.reason = "server_rejected"

\* C15: the expiry boundary is inclusive.  When validateSession has read the
\* session cookie (it did not fail closed with 'no_cookie' or 'no_page'), it
\* returns 'cookie_expired' exactly when the cookie's expiry is at or before
\* the current time: a cookie that expires now is expired and never reaches
\* phase 2, a cookie that expires later is never reported expired.
C15_ExpiryInclusive ==
    [][cycle.pc = "validateSession" /\ cycle'.pc # cycle.pc /\ jar.present =>
          /\ cycle'.reason \notin {"no_cookie", "no_page"} =>
                 (cycle'.reason = "cookie_expired" <=> jar.expires <= now)
          /\ jar.expires = now =>
                 ~cycle'.phase2 /\ cycle'.pc = "forceOpenBrowser"
          /\ jar.expires > now => cycle'.reason # "cookie_expired"]_vars

\* A cookie that expires at this very time has been found expired.
C15_Witness ==
    /\ cycle.pc = "forceOpenBrowser" /\ cycle.reason = "cookie_expired"
    /\ jar.present /\ jar.expires = now

\* C16: waitForLogin always terminates.  It returns true at a poll that reads
\* the cookies and finds sessionKey among them, and a poll after which the
\* wait goes on has read no sessionKey (a jar without it, or nothing because
\* the read failed); it returns false only when maxWait has elapsed; a failed
\* read leaves the wait running; no turn of the loop touches the scraper, the
\* page handles or the browsers; and a wait that has begun ends.  (A turn of
\* the loop is a step that changes more of the cycle than cycle.relogin,
\* which the login of the user sets.)
C16_WaitForLoginTerminates ==
    /\ [][cycle.pc = "waitForLogin" /\ [cycle' EXCEPT !.relogin = cycle.relogin] # cycle =>
             /\ scraper' = scraper /\ auth' = auth /\ browsers' = browsers /\ jar' = jar
             /\ cycle'.pc \in {"waitForLogin", "relaunchClose", "catch"}
             /\ cycle'.pc = "relaunchClose" =>
                    /\ cycle'.loggedIn = "true" /\ cycle.elapsed < LoginWait
                    /\ jar.present /\ PageAlive(W, auth.page)
             /\ cycle'.pc = "waitForLogin" =>
                    /\ cycle.elapsed < LoginWait
                    /\ cycle'.elapsed = cycle.elapsed + LoginPoll
                    /\ cycle'.read \in {"empty", "error"}
                    /\ cycle'.read = "empty" => ~jar.present
                    /\ cycle'.read = "error" => cycle'.loggedIn = "none"
                    /\ jar.present /\ PageAlive(W, auth.page) => cycle'.read = "error"
             /\ cycle'.pc = "catch" =>
                    /\ cycle'.loggedIn = "false" /\ cycle.elapsed >= LoginWait
                    /\ cycle.read \in {"empty", "error"}]_vars
    /\ (cycle.pc = "waitForLogin" ~> cycle.pc # "waitForLogin")

\* The wait has gone on after a failed read of the cookies.
C16_Witness ==
    /\ cycle.pc = "waitForLogin" /\ cycle.read = "error"
    /\ cycle.elapsed >= LoginPoll /\ cycle.elapsed < LoginWait
    /\ jar.present

----------------------------------------------------------------------------
(* SpecReplay: one call of fetchUsageData on a page that is set up and on  *)
(* the usage surface, after any requests the page issued.                  *)

\* Requests the page issues before the call: at most this many.
MaxTraffic == 2

\* The requests a page issues.
PageRequests ==
    {Request(UsageUrl1, "hdrA"), Request(UsageUrl2, "hdrB"), Request(CreditsUrl, "hdrA"),
     Request(OverageUrl, "hdrA"), Request(BootstrapUrl, "hdrA"), Request(StaticUrl, "hdrA")}

NoReplayTrace ==
    [path |-> "none", captured |-> FALSE, cookies |-> "none", usage |-> "none",
     credits |-> "none", overage |-> "none", domOk |-> FALSE, text |-> <<>>,
     err |-> NoError, data |-> NoRecord]

\* What one call of fetchUsageData did: the outcome of each step it got to,
\* and what it returned or threw.
TraceOf(r, e) ==
    LET replayed == r.path # "nav" /\ r.captured /\ e.cookiesOk
        answered == replayed /\ e.usage \in {"ok", "badPayload"}
        fellBack == r.path = "dom" /\ e.domOk
    IN  [path |-> r.path,
         captured |-> r.captured,
         cookies |-> IF r.path # "nav" /\ r.captured
                     THEN (IF e.cookiesOk THEN "ok" ELSE "throws") ELSE "none",
         usage |-> IF replayed THEN e.usage ELSE "none",
         credits |-> IF answered /\ r.w.s.creditsEndpoint # NoEndpoint
                     THEN e.credits ELSE "none",
         overage |-> IF answered /\ r.w.s.overageEndpoint # NoEndpoint
                     THEN e.overage ELSE "none",
         domOk |-> fellBack,
         text |-> IF fellBack THEN e.text ELSE <<>>,
         err |-> r.err,
         data |-> r.data]

\* The state ensureLoggedIn leaves: a page launched, set up (the interception
\* installed or not) and loaded from the usage URL.
ReplayStart(interceptOk) ==
    LET w1 == initialize(World(NewScraper, NewAuth, <<>>), FALSE, TRUE, TRUE,
                         [launch |-> "ok", pageSetup |-> "ok", interceptOk |-> interceptOk]).w
    IN  goto(w1, w1.s.page, URL_USAGE, "ok", <<>>).w

InitReplayCall ==
    /\ \E interceptOk \in BOOLEAN :
         /\ scraper = ReplayStart(interceptOk).s
         /\ auth = ReplayStart(interceptOk).a
         /\ browsers = ReplayStart(interceptOk).b
    /\ jar = [present |-> TRUE, expires |-> MaxTime + 1]
    /\ now = 0
    /\ cycle = [IdleCycle EXCEPT !.pc = "fetchUsageData", !.validated = TRUE, !.ensured = TRUE]
    /\ provider = NewProvider
    /\ replay = [state |-> "ready", requests |-> 0, log |-> <<>>, trace |-> NoReplayTrace]
    /\ InitDom
    /\ InitLoader
    /\ InitSession
    /\ InitRecords
    /\ InitRefresh
    /\ InitDisplay
    /\ InitProjects
    /\ InitBar
    /\ InitCaller
    /\ InitHistory
    /\ InitTracker
    /\ InitRoots
    /\ InitScan

\* The page issues a request; the handler, if installed, sees it and lets it
\* go on.  The log keeps the request and the number of times it was continued.
PageRequest ==
    /\ replay.state = "ready"
    /\ replay.requests < MaxTraffic
    /\ \E request \in PageRequests :
         LET intercepted == browsers[scraper.page].intercepting IN
         /\ scraper' = IF intercepted THEN onRequest(scraper, request) ELSE scraper
         /\ replay' = [replay EXCEPT
                           !.requests = @ + 1,
                           !.log = Append(@, [request |-> request,
                                              intercepted |-> intercepted,
                                              continued |-> IF intercepted
                                                            THEN continueCalls(request)
                                                            ELSE 0])]
    /\ UNCHANGED <<auth, browsers, jar, now, cycle, provider, domVars, loaderVars, sessionVars, recordVars, scanVars, rootVars, trackerVars, historyVars, callerVars, barVars, projectVars, displayVars, refreshVars>>

\* fetchUsageData() is called and returns or throws.
FetchUsageDataCall ==
    /\ replay.state = "ready"
    /\ \E e \in ReplayEnv(Seen) :
         LET r == fetchUsageData(W, e) IN
         /\ Apply(r.w)
         /\ replay' = [replay EXCEPT !.state = "returned", !.trace = TraceOf(r, e)]
    /\ UNCHANGED <<jar, now, cycle, provider, domVars, loaderVars, sessionVars, recordVars, scanVars, rootVars, trackerVars, historyVars, callerVars, barVars, projectVars, displayVars, refreshVars>>

NextReplay == PageRequest \/ FetchUsageDataCall

SpecReplay == InitReplayCall /\ [][NextReplay]_vars

\* C6: a failure of the usage replay (the cookies cannot be read, the fetch
\* throws, the response is not OK, the payload cannot be processed) does not
\* end fetchUsageData: the call goes on to the extraction from the page text
\* and its outcome is the outcome of that extraction; so it does when no usage
\* endpoint was captured.
C6_ReplayFailureFallsBack ==
    LET t == replay.trace IN
    /\ replay.state = "returned" /\ t.path # "nav"
         /\ (~t.captured \/ t.cookies = "throws"
               \/ t.usage \in {"badPayload", "notOk", "throws"})
       => /\ t.path = "dom"
          /\ t.domOk => t.err = domFallback(t.text).err /\ t.data = domFallback(t.text).data
    /\ replay.state = "returned" /\ t.path = "dom"
       => ~t.captured \/ t.cookies = "throws" \/ t.usage \in {"badPayload", "notOk", "throws"}

\* The replay of a captured usage endpoint threw and the text gave the record.
C6_Witness ==
    /\ replay.state = "returned"
    /\ replay.trace.captured
    /\ replay.trace.usage = "throws"
    /\ replay.trace.path = "dom"
    /\ replay.trace.err = NoError
    /\ replay.trace.data.usagePercent = 42

\* C7: when the usage replay succeeds, fetchUsageData returns the record built
\* from the API payload, without fallback and without throwing, whatever the
\* credits and overage replays do; a secondary replay that threw or was not OK
\* leaves its datum null.
C7_SecondaryFailureAbsorbed ==
    LET t == replay.trace IN
    replay.state = "returned" /\ t.usage = "ok" =>
        /\ t.path = "api"
        /\ t.err = NoError
        /\ t.data.rawData = "apiResponse"
        /\ t.data.usagePercent = GoodPayload.five_hour.utilization
        /\ t.credits \in {"notOk", "throws"} => t.data.prepaidCredits = "null"
        /\ t.overage \in {"notOk", "throws"} => t.data.monthlyCredits = "null"
        /\ t.credits = "ok" => t.data.prepaidCredits = "json"

\* The usage replay succeeded, the credits replay threw, the overage replay
\* was not OK.
C7_Witness ==
    /\ replay.state = "returned"
    /\ replay.trace.usage = "ok"
    /\ replay.trace.credits = "throws"
    /\ replay.trace.overage = "notOk"
    /\ replay.trace.path = "api"

\* The URL of the last request of the log that the handler saw and that
\* matches the pattern, or null.
LastMatch(log, pattern) ==
    LET hits == {i \in 1..Len(log) :
                    log[i].intercepted /\ matchesEndpoint(log[i].request.url, pattern)}
    IN  IF hits = {} THEN Null
        ELSE CHOOSE i \in hits : \A j \in hits : j <= i

----------------------------------------------------------------------------
(* SpecDom: the fallback of fetchUsageData on every page text of at most   *)
(* MaxTextLen tokens.                                                      *)

MaxTextLen == 5

TextsUpTo(n) == UNION {[1..k -> DomTokens] : k \in 0..n}

InitDomCall ==
    /\ InitFetch
    /\ InitReplay
    /\ InitLoader
    /\ InitSession
    /\ InitRecords
    /\ InitRefresh
    /\ InitDisplay
    /\ InitProjects
    /\ InitBar
    /\ InitCaller
    /\ InitHistory
    /\ InitTracker
    /\ InitRoots
    /\ InitScan
    /\ domText \in TextsUpTo(MaxTextLen)
    /\ domResult = [state |-> "pending", err |-> NoError, data |-> NoRecord]

\* The fallback runs on the text of the page: it returns a record or throws
\* through the outer catch of fetchUsageData.
EvaluatePageText ==
    /\ domResult.state = "pending"
    /\ domResult' = [state |-> "returned",
                     err |-> fetchUsageDataCatch(domFallback(domText).err),
                     data |-> domFallback(domText).data]
    /\ UNCHANGED <<fetchVars, replayVars, domText, loaderVars, sessionVars, recordVars, scanVars, rootVars, trackerVars, historyVars, callerVars, barVars, projectVars, displayVars, refreshVars>>

NextDom == EvaluatePageText

SpecDom == InitDomCall /\ [][NextDom]_vars

\* text[i..d] is a number, followed by "%", any white space and "used".
UsagePhrase(text, i, d) ==
    /\ i <= d /\ d + 1 <= Len(text)
    /\ \A k \in i..d : text[k] \in Digits
    /\ text[d + 1] = "%"
    /\ \E u \in (d + 2)..Len(text) :
          text[u] = "used" /\ \A k \in (d + 2)..(u - 1) : text[k] \in Spaces

\* The number a digit string denotes.
RECURSIVE Pow10(_)
Pow10(n) == IF n = 0 THEN 1 ELSE 10 * Pow10(n - 1)

RECURSIVE Decimal(_, _)
Decimal(digits, k) ==
    IF k > Len(digits) THEN 0
    ELSE DigitValue(digits[k]) * Pow10(Len(digits) - k) + Decimal(digits, k + 1)

\* c can start the capture of a reset phrase that starts at i: only white
\* space lies between, and text[c] is no newline.
CaptureStart(text, i, c) ==
    /\ i < c /\ c <= Len(text)
    /\ text[c] # "\n"
    /\ \A m \in (i + 1)..(c - 1) : text[m] \in Spaces

\* The reset phrase of a text: the rest of the line after the first
\* "Resets in " that has one, without the white space around it; <<>> when
\* there is no such phrase or only white space after it.
ResetPhrase(text) ==
    LET starts == {i \in 1..Len(text) :
                      text[i] = "Resets in " /\ \E c \in 1..Len(text) : CaptureStart(text, i, c)}
    IN  IF starts = {} THEN <<>>
        ELSE LET i == CHOOSE x \in starts : \A y \in starts : x <= y
                 c == CHOOSE x \in 1..Len(text) :
                         /\ CaptureStart(text, i, x)
                         /\ \A y \in 1..Len(text) : CaptureStart(text, i, y) => y <= x
                 e == CHOOSE x \in c..Len(text) :
                         /\ \A m \in c..x : text[m] # "\n"
                         /\ x = Len(text) \/ text[x + 1] = "\n"
                 inked == {m \in c..e : text[m] \notin Spaces}
             IN  IF inked = {} THEN <<>>
                 ELSE SubSeq(text,
                             CHOOSE x \in inked : \A y \in inked : x <= y,
                             CHOOSE x \in inked : \A y \in inked : y <= x)

\* C8: the fallback returns the number of the first "N% used" phrase of the
\* text as usagePercent, and the reset phrase of the text, or 'Unknown' when
\* it has none, as resetTime; without a percentage phrase it throws the
\* layout-changed error and returns no record.
C8_DomFallbackResult ==
    domResult.state = "returned" =>
        LET starts == {i \in 1..Len(domText) :
                          \E d \in 1..Len(domText) : UsagePhrase(domText, i, d)}
            i == CHOOSE x \in starts : \A y \in starts : x <= y
            d == CHOOSE x \in 1..Len(domText) : UsagePhrase(domText, i, x)
        IN  IF starts = {}
            THEN domResult.err = MsgLayoutChanged /\ domResult.data = NoRecord
            ELSE /\ domResult.err = NoError
                 /\ domResult.data.usagePercent = Decimal(SubSeq(domText, i, d), 1)
                 /\ domResult.data.resetTime =
                        IF ResetPhrase(domText) = <<>> THEN Unknown ELSE ResetPhrase(domText)

\* The text "42% used" without a reset phrase gave {42, 'Unknown'}.
C8_Witness ==
    /\ domText = <<"4", "2", "%", " ", "used">>
    /\ domResult.state = "returned"
    /\ domResult.data.usagePercent = 42
    /\ domResult.data.resetTime = Unknown

----------------------------------------------------------------------------
(* SpecLoader: one call of getCurrentSessionUsage in a log root that Claude *)
(* Code fills while the loader's workspace is set.  The loader keeps        *)
(* nothing between calls but its workspace, so a behaviour ends with the    *)
(* call.  The repository holds two copies of the loader: the file that      *)
(* extension.js requires (src/src/claudeDataLoader.js) and the 2.7.1 copy   *)
(* (src/unnamed/part_002).                                                  *)

\* The clock of the log root runs from 0 to MaxClock.
MaxClock == 2
\* TIMEOUTS.SESSION_DURATION, in ticks of that clock.
SESSION_DURATION == 1
\* At most MaxFiles files lie under the log root.
MaxFiles == 2

\* Paths are sequences of characters; null and '' are both falsy.
NoPath == <<>>
Workspaces == {<<"/", "a">>, <<"/", "b">>}
\* The directories Claude Code makes under the root, one per project.
ProjectDirNames == {<<"-", "a">>, <<"-", "b">>}
FileNames == {<<"uuid", ".jsonl">>, <<"agent-", "1", ".jsonl">>, <<"notes", ".txt">>}
Uuids == {"uuid"}

\* A line of a log: whether JSON.parse accepts it, its type, whether it has
\* message.usage, and the two cache fields of the usage (0 when missing).
Assistant(creation, read) ==
    [parses |-> TRUE, type |-> "assistant", usage |-> TRUE,
     cache_creation_input_tokens |-> creation, cache_read_input_tokens |-> read]
UserLine ==
    [parses |-> TRUE, type |-> "user", usage |-> FALSE,
     cache_creation_input_tokens |-> 0, cache_read_input_tokens |-> 0]
\* What Claude Code writes to a log: the lines of the file.
LogContents == {<<Assistant(1, 2)>>, <<Assistant(1, 2), UserLine>>}

NoDir == [kind |-> "none", name |-> NoPath]
RootDir == [kind |-> "root", name |-> NoPath]
ProjectDir(name) == [kind |-> "project", name |-> name]

NoFiles == [k \in {} |-> 0]

convertPathToClaudeDir(workspacePath) ==
    [i \in DOMAIN workspacePath |-> IF workspacePath[i] = "/" THEN "-" ELSE workspacePath[i]]

NewLoader(copy, workspacePath) ==
    [state |-> "on", copy |-> copy, workspacePath |-> workspacePath,
     projectDirName |-> IF workspacePath # NoPath
                        THEN convertPathToClaudeDir(workspacePath) ELSE NoPath]

setWorkspacePath(l, workspacePath) ==
    [l EXCEPT !.workspacePath = workspacePath,
              !.projectDirName = IF workspacePath # NoPath
                                 THEN convertPathToClaudeDir(workspacePath) ELSE NoPath]

\* The first of claudeConfigPaths that is a directory: the model has one root.
findClaudeDataDirectory(fs) == IF fs.rootExists THEN RootDir ELSE NoDir

getProjectDataDirectory(l, fs) ==
    IF l.projectDirName = NoPath THEN NoDir
    ELSE IF findClaudeDataDirectory(fs) = NoDir THEN NoDir
    ELSE IF l.projectDirName \in fs.dirs THEN ProjectDir(l.projectDirName)
    ELSE NoDir

\* The files below dirPath, at any depth, whose name ends with '.jsonl'.
findJsonlFiles(fs, dirPath) ==
    {k \in DOMAIN fs.files :
        /\ \/ dirPath.kind = "root"
           \/ dirPath.kind = "project" /\ k.dir = dirPath.name
        /\ k.name[Len(k.name)] = ".jsonl"}

\* part_002: agent-* files are left out, files named by a UUID are kept.
mainSessionFiles(allJsonlFiles) ==
    {k \in allJsonlFiles : k.name[1] # "agent-" /\ Len(k.name) = 2 /\ k.name[1] \in Uuids}

\* A file whose stat fails is passed over.
recentFiles(fs, files) ==
    {k \in files : k \notin fs.unstatable /\ fs.files[k].mtime >= fs.clock - SESSION_DURATION}

\* The files the sort can put first: those of the latest modification time.
mostRecentFiles(fs, files) ==
    {k \in recentFiles(fs, files) :
        \A j \in recentFiles(fs, files) : fs.files[j].mtime <= fs.files[k].mtime}

ZeroUsage ==
    [totalTokens |-> 0, inputTokens |-> 0, outputTokens |-> 0, cacheCreationTokens |-> 0,
     cacheReadTokens |-> 0, messageCount |-> 0, isActive |-> FALSE]

\* The scan as it would be from the start of the file to its end.
firstCacheLine(lines, i) ==
    LET found == {j \in 1..i :
                     /\ lines[j].parses /\ lines[j].type = "assistant" /\ lines[j].usage
                     /\ lines[j].cache_creation_input_tokens
                            + lines[j].cache_read_input_tokens > 0}
    IN  IF found = {} THEN 0 ELSE CHOOSE j \in found : \A k \in found : j <= k

\* The scan from the end of the file to the last assistant line with cache
\* tokens; a line that JSON.parse rejects is skipped.
RECURSIVE lastCacheLine(_, _)
lastCacheLine(lines, i) ==
    IF i = 0 THEN 0
    ELSE IF /\ lines[i].parses
            /\ lines[i].type = "assistant" /\ lines[i].usage
            /\ lines[i].cache_creation_input_tokens + lines[i].cache_read_input_tokens > 0
         THEN i
         ELSE lastCacheLine(lines, i - 1)

usageOfLines(lines) ==
    LET i == lastCacheLine(lines, Len(lines))
    IN  IF i = 0 THEN ZeroUsage
        ELSE [totalTokens |-> lines[i].cache_read_input_tokens,
              inputTokens |-> 0, outputTokens |-> 0,
              cacheCreationTokens |-> lines[i].cache_creation_input_tokens,
              cacheReadTokens |-> lines[i].cache_read_input_tokens,
              messageCount |-> Len(lines),
              isActive |-> lines[i].cache_read_input_tokens > 0]

Returned(usage, dataDir, read) ==
    [state |-> "returned", usage |-> usage, dataDir |-> dataDir, read |-> read]
\* The promise of the call is rejected: an exception has left the function.
Rejected(dataDir) ==
    [state |-> "rejected", usage |-> ZeroUsage, dataDir |-> dataDir, read |-> {}]

\* The part of getCurrentSessionUsage after the data directory is chosen as
\* it would be without its try block.
readSessionUsageNoCatch(fs, dataDir, files, first) ==
    IF recentFiles(fs, files) = {} THEN Returned(ZeroUsage, dataDir, {})
    ELSE IF first \in fs.unreadable THEN Rejected(dataDir)
    ELSE Returned(usageOfLines(fs.files[first].content), dataDir, {first})

\* The part of getCurrentSessionUsage after the data directory is chosen:
\* first is the file the sort puts first among the most recent ones.  When
\* readFile throws, the catch of the try block returns the zero result.
readSessionUsage(fs, dataDir, files, first) ==
    IF recentFiles(fs, files) = {} THEN Returned(ZeroUsage, dataDir, {})
    ELSE IF first \in fs.unreadable THEN Returned(ZeroUsage, dataDir, {})
    ELSE Returned(usageOfLines(fs.files[first].content), dataDir, {first})

\* src/src/claudeDataLoader.js: the project directory first, else the root.
getCurrentSessionUsage(l, fs, first) ==
    LET projectDir == getProjectDataDirectory(l, fs)
        dataDir == IF projectDir = NoDir THEN findClaudeDataDirectory(fs) ELSE projectDir
    IN  IF dataDir = NoDir THEN Returned(ZeroUsage, NoDir, {})
        ELSE readSessionUsage(fs, dataDir, findJsonlFiles(fs, dataDir), first)

\* src/unnamed/part_002: with a workspace only its project directory.
getCurrentSessionUsage271(l, fs, first) ==
    IF l.projectDirName # NoPath /\ getProjectDataDirectory(l, fs) = NoDir
    THEN Returned(ZeroUsage, NoDir, {})
    ELSE LET dataDir == IF l.projectDirName # NoPath
                        THEN getProjectDataDirectory(l, fs)
                        ELSE findClaudeDataDirectory(fs)
         IN  IF dataDir = NoDir THEN Returned(ZeroUsage, NoDir, {})
             ELSE readSessionUsage(fs, dataDir,
                                   mainSessionFiles(findJsonlFiles(fs, dataDir)), first)

\* The files the call of this copy chooses among.
candidates(l, fs) ==
    LET projectDir == getProjectDataDirectory(l, fs)
        dataDir == IF projectDir # NoDir THEN projectDir
                   ELSE IF l.copy = "part_002" /\ l.projectDirName # NoPath THEN NoDir
                   ELSE findClaudeDataDirectory(fs)
        all == findJsonlFiles(fs, dataDir)
    IN  mostRecentFiles(fs, IF l.copy = "part_002" THEN mainSessionFiles(all) ELSE all)

LoaderCopies == {"claudeDataLoader.js", "part_002"}

\* What can fail during one call: the stat of the root, the stat of the
\* project directory, readdir of the searched directory or of one directory
\* below it, the stat of one file, readFile.
NoKey == [dir |-> NoPath, name |-> NoPath]
NoFaults ==
    [rootStatOk |-> TRUE, projectStatOk |-> TRUE, readdirOk |-> TRUE, unlisted |-> NoPath,
     statFails |-> NoKey, readFails |-> {}]
\* getCurrentSessionUsage reads one file: its readFile fails or not.
Faults(fs) ==
    IF ~fs.flaky THEN {NoFaults}
    ELSE {e \in [rootStatOk : BOOLEAN, projectStatOk : BOOLEAN, readdirOk : BOOLEAN,
                 unlisted : {NoPath} \cup fs.dirs,
                 statFails : {NoKey} \cup DOMAIN fs.files,
                 readFails : {{}, DOMAIN fs.files}] :
             ~e.readdirOk => e.unlisted = NoPath}

\* The file system as the call sees it: every failing stat and readdir is
\* caught where it happens (part_002:61-69, 102-113, 127-143, 382-393) and
\* leaves the directory or the file out.
Visible(fs, e) ==
    LET listed == {k \in DOMAIN fs.files : e.readdirOk /\ k.dir # e.unlisted}
    IN  [state |-> fs.state, flaky |-> fs.flaky, clock |-> fs.clock,
         rootExists |-> fs.rootExists /\ e.rootStatOk,
         dirs |-> IF e.projectStatOk THEN fs.dirs ELSE {},
         files |-> [k \in listed |-> fs.files[k]],
         unstatable |-> {e.statFails} \cap listed,
         unreadable |-> e.readFails \cap listed]

InitLoaderCall ==
    /\ InitFetch
    /\ InitReplay
    /\ InitDom
    /\ InitSession
    /\ InitRecords
    /\ InitRefresh
    /\ InitDisplay
    /\ InitProjects
    /\ InitBar
    /\ InitCaller
    /\ InitHistory
    /\ InitTracker
    /\ InitRoots
    /\ InitScan
    /\ fsys \in {[state |-> "on", flaky |-> FALSE, rootExists |-> r, dirs |-> {},
                  files |-> NoFiles, clock |-> 0] : r \in BOOLEAN}
    /\ loader \in {NewLoader(c, p) : c \in LoaderCopies, p \in Workspaces \cup {NoPath}}
    /\ snapshot = [state |-> "none"]

\* Claude Code starts a project: its directory appears under the root.
MakeProjectDir ==
    /\ snapshot.state = "none"
    /\ fsys.rootExists
    /\ \E d \in ProjectDirNames \ fsys.dirs :
          fsys' = [fsys EXCEPT !.dirs = @ \cup {d}]
    /\ UNCHANGED <<fetchVars, replayVars, domVars, loader, snapshot, sessionVars, recordVars, scanVars, rootVars, trackerVars, historyVars, callerVars, barVars, projectVars, displayVars, refreshVars>>

\* Claude Code writes a file of a project.
WriteLog ==
    /\ snapshot.state = "none"
    /\ fsys.rootExists
    /\ \E d \in ProjectDirNames, n \in FileNames, c \in LogContents :
          LET key == [dir |-> d, name |-> n]
          IN  /\ key \in DOMAIN fsys.files \/ Cardinality(DOMAIN fsys.files) < MaxFiles
              /\ fsys' = [fsys EXCEPT
                             !.dirs = @ \cup {d},
                             !.files = [k \in DOMAIN fsys.files \cup {key} |->
                                           IF k = key
                                           THEN [mtime |-> fsys.clock, content |-> c]
                                           ELSE fsys.files[k]]]
    /\ UNCHANGED <<fetchVars, replayVars, domVars, loader, snapshot, sessionVars, recordVars, scanVars, rootVars, trackerVars, historyVars, callerVars, barVars, projectVars, displayVars, refreshVars>>

ClockTick ==
    /\ snapshot.state = "none"
    /\ fsys.clock < MaxClock
    /\ fsys' = [fsys EXCEPT !.clock = @ + 1]
    /\ UNCHANGED <<fetchVars, replayVars, domVars, loader, snapshot, sessionVars, recordVars, scanVars, rootVars, trackerVars, historyVars, callerVars, barVars, projectVars, displayVars, refreshVars>>

SetWorkspacePath ==
    /\ snapshot.state = "none"
    /\ \E p \in Workspaces \cup {NoPath} :
          /\ p # loader.workspacePath
          /\ loader' = setWorkspacePath(loader, p)
    /\ UNCHANGED <<fetchVars, replayVars, domVars, fsys, snapshot, sessionVars, recordVars, scanVars, rootVars, trackerVars, historyVars, callerVars, barVars, projectVars, displayVars, refreshVars>>

\* One call of getCurrentSessionUsage; snapshot.faults remembers what failed
\* during it.
GetCurrentSessionUsage ==
    /\ snapshot.state = "none"
    /\ \E e \in Faults(fsys) :
          LET fs == Visible(fsys, e) IN
          \E first \in IF candidates(loader, fs) = {} THEN {NoKey} ELSE candidates(loader, fs) :
             LET r == IF loader.copy = "part_002"
                      THEN getCurrentSessionUsage271(loader, fs, first)
                      ELSE getCurrentSessionUsage(loader, fs, first)
             IN  snapshot' = [state |-> r.state, usage |-> r.usage, dataDir |-> r.dataDir,
                              read |-> r.read, faults |-> e]
    /\ UNCHANGED <<fetchVars, replayVars, domVars, fsys, loader, sessionVars, recordVars, scanVars, rootVars, trackerVars, historyVars, callerVars, barVars, projectVars, displayVars, refreshVars>>

NextLoader ==
    \/ MakeProjectDir
    \/ WriteLog
    \/ ClockTick
    \/ SetWorkspacePath
    \/ GetCurrentSessionUsage

SpecLoader == InitLoaderCall /\ [][NextLoader]_vars

\* The call was made with a workspace whose project directory is missing.
ProjectDirMissing ==
    /\ snapshot.state = "returned"
    /\ loader.projectDirName # NoPath
    /\ loader.projectDirName \notin fsys.dirs

\* C1: whenever a workspace path is set and its project directory does not
\* exist under the log root, getCurrentSessionUsage returns isActive = false
\* with all token totals zero and reads no file, even when the root exists and
\* holds recently modified logs of other projects.
C1_NoCrossProjectFallback ==
    ProjectDirMissing => snapshot.usage = ZeroUsage /\ snapshot.read = {}

\* The root exists and holds a recent log of another project, and the call
\* returned with the workspace's own directory missing.
C1_Witness ==
    /\ ProjectDirMissing
    /\ fsys.rootExists
    /\ \E k \in DOMAIN fsys.files :
          /\ k.dir # loader.projectDirName
          /\ k.name[Len(k.name)] = ".jsonl"
          /\ fsys.files[k].mtime >= fsys.clock - SESSION_DURATION

\* C22: the file getCurrentSessionUsage reads is a main-session file: its
\* name does not start with the agent prefix and is a UUID followed by
\* .jsonl, whichever file of the searched directory was modified last.
C22_AgentFilesNeverRead ==
    snapshot.state = "returned" =>
        \A k \in snapshot.read :
            k.name[1] # "agent-" /\ Len(k.name) = 2
                /\ k.name[1] \in Uuids /\ k.name[2] = ".jsonl"

\* The loader that extension.js requires has read an agent file that was
\* modified after the main-session file of the same project.
C22_Witness ==
    /\ snapshot.state = "returned" /\ loader.copy = "claudeDataLoader.js"
    /\ \E k \in snapshot.read, m \in DOMAIN fsys.files :
          /\ k.name[1] = "agent-"
          /\ m.dir = k.dir /\ m.name = <<"uuid", ".jsonl">>
          /\ fsys.files[m].mtime < fsys.files[k].mtime
          /\ fsys.files[m].mtime >= fsys.clock - SESSION_DURATION

\* The main-session files of the directory the call searched whose
\* modification time lies within the activity window.
MainInWindow ==
    {k \in mainSessionFiles(findJsonlFiles(fsys, snapshot.dataDir)) :
        fsys.files[k].mtime >= fsys.clock - SESSION_DURATION}

\* C23: getCurrentSessionUsage reads one file at most, a main-session file
\* modified within the activity window and the most recently modified of
\* these; when no main-session file lies within the window it reads nothing
\* and returns the inactive result with zero totals.
C23_ActivityWindow ==
    snapshot.state = "returned" =>
        /\ Cardinality(snapshot.read) <= 1
        /\ \A k \in snapshot.read :
              /\ k \in MainInWindow
              /\ \A j \in MainInWindow : fsys.files[j].mtime <= fsys.files[k].mtime
        /\ MainInWindow = {} => snapshot.read = {} /\ snapshot.usage = ZeroUsage
        /\ MainInWindow # {} => snapshot.read # {}

\* The only main-session file of the directory was last modified before the
\* window, and the snapshot is active all the same.
C23_Witness ==
    /\ snapshot.state = "returned" /\ snapshot.usage.isActive
    /\ MainInWindow = {}
    /\ \E m \in mainSessionFiles(findJsonlFiles(fsys, snapshot.dataDir)) :
          fsys.files[m].mtime < fsys.clock - SESSION_DURATION


----------------------------------------------------------------------------
(* SpecScan: the scan of getCurrentSessionUsage over the lines of the file  *)
(* it has selected (the same in both copies of the loader).                 *)

\* Longest file that is scanned.
MaxScanLines == 4

MalformedLine ==
    [parses |-> FALSE, type |-> "", usage |-> FALSE,
     cache_creation_input_tokens |-> 0, cache_read_input_tokens |-> 0]
AssistantNoUsage == [Assistant(0, 0) EXCEPT !.usage = FALSE]
UserWithCache == [Assistant(1, 2) EXCEPT !.type = "user"]
\* The lines of a session log: assistant events with and without cache
\* tokens, other events, lines that are no JSON.
ScanLines ==
    {MalformedLine, UserLine, AssistantNoUsage, UserWithCache,
     Assistant(0, 0), Assistant(1, 0), Assistant(0, 2), Assistant(1, 2), Assistant(4, 8)}

InitScanCall ==
    /\ scan = [state |-> "ready", lines |-> <<>>, usage |-> ZeroUsage]
    /\ InitFetch
    /\ InitReplay
    /\ InitDom
    /\ InitLoader
    /\ InitSession
    /\ InitRecords
    /\ InitRefresh
    /\ InitDisplay
    /\ InitProjects
    /\ InitBar
    /\ InitCaller
    /\ InitHistory
    /\ InitTracker
    /\ InitRoots

\* Environment: Claude Code appends a line to the session log.
AppendScanLine ==
    /\ scan.state = "ready"
    /\ Len(scan.lines) < MaxScanLines
    /\ \E line \in ScanLines : scan' = [scan EXCEPT !.lines = Append(@, line)]
    /\ UNCHANGED <<fetchVars, replayVars, domVars, loaderVars, sessionVars, recordVars, rootVars, trackerVars, historyVars, callerVars, barVars, projectVars, displayVars, refreshVars>>

\* getCurrentSessionUsage: the loop over the lines and the return value.
ScanFile ==
    /\ scan.state = "ready"
    /\ scan' = [scan EXCEPT !.state = "scanned", !.usage = usageOfLines(scan.lines)]
    /\ UNCHANGED <<fetchVars, replayVars, domVars, loaderVars, sessionVars, recordVars, rootVars, trackerVars, historyVars, callerVars, barVars, projectVars, displayVars, refreshVars>>

NextScan == AppendScanLine \/ ScanFile

SpecScan == InitScanCall /\ [][NextScan]_vars

\* The lines that end the scan: assistant events with usage whose two cache
\* fields are not both zero.
Qualifies(line) ==
    /\ line.parses /\ line.type = "assistant" /\ line.usage
    /\ line.cache_creation_input_tokens + line.cache_read_input_tokens > 0

----------------------------------------------------------------------------
(* SpecSession: the browser profile directory under ClaudeAuth's           *)
(* hasExistingSession and clearSession (auth.js).                          *)

\* Largest size of a cookie file, and the longest run of clearSession calls.
MaxCookieBytes == 2
MaxClears == 2

MsgSessionCleared == <<"Session cleared successfully. Next fetch will prompt for login.">>
MsgFailedToClear(err) == <<"Failed to clear session: ", err>>

\* A file of the profile directory: Default/Cookies or Default/Network/Cookies.
NoCookieFile == [exists |-> FALSE, size |-> 0]
CookieFiles == {NoCookieFile} \cup {[exists |-> TRUE, size |-> n] : n \in 0..MaxCookieBytes}

\* PATHS.BROWSER_SESSION_DIR: absent, or a directory with its cookie files and,
\* while a browser runs on it, the browser's SingletonLock.
NoProfile ==
    [exists |-> FALSE, cookies |-> NoCookieFile, network |-> NoCookieFile, locked |-> FALSE]
ProfileDirs ==
    {NoProfile} \cup {[exists |-> TRUE, cookies |-> c, network |-> n, locked |-> l] :
                         c, n \in CookieFiles, l \in BOOLEAN}

\* hasExistingSession(): the directory exists and one of the two cookie files
\* exists with a size above 0; an exception of statSync gives false.
hasExistingSession(dir, statOk) ==
    IF ~dir.exists THEN FALSE
    ELSE IF dir.cookies.exists /\ ~statOk THEN FALSE
    ELSE IF dir.cookies.exists /\ dir.cookies.size > 0 THEN TRUE
    ELSE IF dir.network.exists /\ ~statOk THEN FALSE
    ELSE IF dir.network.exists /\ dir.network.size > 0 THEN TRUE
    ELSE FALSE

\* What fs.rmSync(dir, {recursive, force}) can do: remove the directory, or
\* throw (a file is held by a running browser, or may not be removed) after it
\* has removed none, one or both of the cookie files.
RmErrors == {"EBUSY", "EPERM"}
Leftovers(dir) ==
    {[exists |-> TRUE, cookies |-> c, network |-> n, locked |-> dir.locked] :
        c \in {dir.cookies, NoCookieFile}, n \in {dir.network, NoCookieFile}}
RmOutcomes(dir) ==
    {[err |-> NoError, left |-> NoProfile]}
        \cup {[err |-> <<x>>, left |-> l] : x \in RmErrors, l \in Leftovers(dir)}

\* clearSession() as it would be without the existsSync test and without
\* force: removing a directory that is not there fails.
clearSessionUnguarded(dir, rm) ==
    IF ~dir.exists
    THEN [dir |-> dir, success |-> FALSE, message |-> MsgFailedToClear("ENOENT")]
    ELSE IF rm.err = NoError
    THEN [dir |-> NoProfile, success |-> TRUE, message |-> MsgSessionCleared]
    ELSE [dir |-> rm.left, success |-> FALSE, message |-> MsgFailedToClear(rm.err[1])]

\* clearSession(): remove the directory if it exists; an exception of rmSync
\* is caught and reported in the result.
clearSession(dir, rm) ==
    IF dir.exists /\ rm.err # NoError
    THEN [dir |-> rm.left, success |-> FALSE, message |-> MsgFailedToClear(rm.err[1])]
    ELSE [dir |-> NoProfile, success |-> TRUE, message |-> MsgSessionCleared]

\* profile.last is the result of the latest call on the directory as it is
\* now; profile.clears counts the clearSession calls that succeeded in a row.
NoResult == [op |-> "none", value |-> FALSE, message |-> <<>>]

InitSessionCall ==
    /\ profile \in [state : {"on"}, dir : ProfileDirs, last : {NoResult}, clears : {0}]
    /\ InitFetch
    /\ InitReplay
    /\ InitDom
    /\ InitLoader
    /\ InitRecords
    /\ InitRefresh
    /\ InitDisplay
    /\ InitProjects
    /\ InitBar
    /\ InitCaller
    /\ InitHistory
    /\ InitTracker
    /\ InitRoots
    /\ InitScan

\* The clearSession command: await this.auth.clearSession()
ClearSessionCall ==
    /\ profile.state = "on"
    /\ profile.clears < MaxClears
    /\ \E rm \in RmOutcomes(profile.dir) :
         LET r == clearSession(profile.dir, rm) IN
         profile' = [profile EXCEPT
                        !.dir = r.dir,
                        !.last = [op |-> "clearSession", value |-> r.success,
                                  message |-> r.message],
                        !.clears = IF r.success THEN @ + 1 ELSE 0]
    /\ UNCHANGED <<fetchVars, replayVars, domVars, loaderVars, recordVars, scanVars, rootVars, trackerVars, historyVars, callerVars, barVars, projectVars, displayVars, refreshVars>>

\* getDiagnostics or the scraper asks: this.auth.hasExistingSession()
HasExistingSessionCall ==
    /\ profile.state = "on"
    /\ \E statOk \in BOOLEAN :
         profile' = [profile EXCEPT
                        !.last = [op |-> "hasExistingSession",
                                  value |-> hasExistingSession(profile.dir, statOk),
                                  message |-> <<>>]]
    /\ UNCHANGED <<fetchVars, replayVars, domVars, loaderVars, recordVars, scanVars, rootVars, trackerVars, historyVars, callerVars, barVars, projectVars, displayVars, refreshVars>>

\* Environment: a browser launched with userDataDir = sessionDir creates the
\* directory, takes or releases its lock and writes its cookie files.
BrowserWritesProfile ==
    /\ profile.state = "on"
    /\ \E d \in ProfileDirs :
         /\ d.exists /\ d # profile.dir
         /\ profile' = [profile EXCEPT !.dir = d, !.last = NoResult, !.clears = 0]
    /\ UNCHANGED <<fetchVars, replayVars, domVars, loaderVars, recordVars, scanVars, rootVars, trackerVars, historyVars, callerVars, barVars, projectVars, displayVars, refreshVars>>

NextSession == ClearSessionCall \/ HasExistingSessionCall \/ BrowserWritesProfile

SpecSession == InitSessionCall /\ [][NextSession]_vars

\* C17: clearSession is total and idempotent.  Every call returns a result:
\* success with the message of success, or failure with a message that starts
\* with "Failed to clear session: ".  It succeeds when the directory is
\* absent and then changes nothing; after a success the directory is gone and
\* hasExistingSession is false; a call that follows a successful one succeeds
\* again and changes nothing.
C17_ClearSessionIdempotent ==
    [][profile'.last.op = "clearSession" /\ profile' # profile =>
          LET r == profile'.last IN
          /\ r.value <=> r.message = MsgSessionCleared
          /\ ~r.value => Len(r.message) = 2 /\ r.message[1] = "Failed to clear session: "
          /\ ~profile.dir.exists => r.value /\ profile'.dir = profile.dir
          /\ r.value =>
                /\ ~profile'.dir.exists
                /\ \A statOk \in BOOLEAN : ~hasExistingSession(profile'.dir, statOk)
          /\ profile.clears > 0 => r.value /\ profile'.dir = profile.dir]_vars

\* clearSession has succeeded twice in a row.
C17_Witness ==
    /\ profile.state = "on" /\ profile.clears = 2
    /\ profile.last = [op |-> "clearSession", value |-> TRUE, message |-> MsgSessionCleared]
    /\ ~profile.dir.exists


----------------------------------------------------------------------------
(* SpecRecords: parseJsonlFile and loadUsageRecords of ClaudeDataLoader    *)
(* on the lines of a log file (the two copies of the loader agree on       *)
(* these functions).                                                       *)

\* Longest log file, and the latest timestamp of an event.
MaxLines == 3
MaxStamp == 2

\* JavaScript values of the fields of a parsed line: undefined, a number, a
\* string; Iso(k) is an ISO timestamp string whose Date is k ms.
Undefined == [t |-> "undefined", n |-> 0, s |-> <<>>]
Num(k) == [t |-> "number", n |-> k, s |-> <<>>]
Str(x) == [t |-> "string", n |-> 0, s |-> <<x>>]
Iso(k) == [t |-> "string", n |-> k, s |-> <<"T">>]

\* A line of the file.  shape: "blank" (only white space), "malformed"
\* (JSON.parse throws), "noUsage" (an object without message.usage), or
\* "record" (an object with message.usage).
Event(messageId, requestId, timestamp, input, output, creation, read) ==
    [shape |-> "record",
     message |-> [id |-> messageId, model |-> "claude",
                  usage |-> [input_tokens |-> input, output_tokens |-> output,
                             cache_creation_input_tokens |-> creation,
                             cache_read_input_tokens |-> read]],
     requestId |-> requestId, timestamp |-> timestamp, isApiErrorMessage |-> FALSE]
Shaped(shape) ==
    [Event(Undefined, Undefined, Undefined, Undefined, Undefined, Undefined, Undefined)
        EXCEPT !.shape = shape]

\* The lines the producer writes: three that are no usage records, three
\* records that fail the validity test, and events of three keys, each early
\* with one token pattern or late with another, and one without a timestamp.
EventKeys ==
    {<<Str("msg_1"), Str("req_1")>>, <<Str("msg_1"), Str("req_2")>>, <<Undefined, Undefined>>}
EarlyEvent(key) == Event(key[1], key[2], Iso(1), Num(1), Num(2), Undefined, Num(4))
LateEvent(key) == Event(key[1], key[2], Iso(MaxStamp), Num(8), Num(16), Num(32), Undefined)
UndatedEvent == Event(Str("msg_1"), Str("req_1"), Undefined, Num(64), Num(0), Num(128), Num(256))
StringTokens == [EarlyEvent(<<Str("msg_1"), Str("req_1")>>) EXCEPT
                    !.message.usage.input_tokens = Str("5")]
Synthetic == [EarlyEvent(<<Str("msg_1"), Str("req_1")>>) EXCEPT !.message.model = "<synthetic>"]
ApiError == [EarlyEvent(<<Str("msg_1"), Str("req_1")>>) EXCEPT !.isApiErrorMessage = TRUE]
LogLines ==
    {Shaped("blank"), Shaped("malformed"), Shaped("noUsage"), StringTokens, Synthetic, ApiError,
     UndatedEvent}
        \cup {EarlyEvent(key) : key \in EventKeys} \cup {LateEvent(key) : key \in EventKeys}

\* isValidUsageRecord(record)
isValidUsageRecord(record) ==
    /\ record.shape = "record"
    /\ record.message.usage.input_tokens.t = "number"
    /\ record.message.usage.output_tokens.t = "number"
    /\ record.message.model # "<synthetic>"
    /\ ~record.isApiErrorMessage

\* parseJsonlFile as it would be with one try block around the whole loop:
\* the first malformed line ends the parsing.
RECURSIVE parseLinesAbort(_, _)
parseLinesAbort(lines, records) ==
    IF lines = <<>> THEN records
    ELSE LET line == Head(lines) IN
         IF line.shape = "malformed" THEN records
         ELSE IF isValidUsageRecord(line)
         THEN parseLinesAbort(Tail(lines), Append(records, line))
         ELSE parseLinesAbort(Tail(lines), records)

parseJsonlFileAbort(lines, readOk) ==
    IF ~readOk THEN <<>>
    ELSE parseLinesAbort(SelectSeq(lines, LAMBDA line : line.shape # "blank"), <<>>)

\* parseJsonlFile, the loop: JSON.parse(line) in its own try block, then
\* isValidUsageRecord, then records.push(record).
RECURSIVE parseLines(_, _)
parseLines(lines, records) ==
    IF lines = <<>> THEN records
    ELSE LET line == Head(lines) IN
         IF line.shape = "malformed" THEN parseLines(Tail(lines), records)
         ELSE IF isValidUsageRecord(line)
         THEN parseLines(Tail(lines), Append(records, line))
         ELSE parseLines(Tail(lines), records)

\* parseJsonlFile(filePath): read the file (a failure gives []), split it,
\* drop the blank lines, parse the others one by one.
parseJsonlFile(lines, readOk) ==
    IF ~readOk THEN <<>>
    ELSE parseLines(SelectSeq(lines, LAMBDA line : line.shape # "blank"), <<>>)

\* getRecordHash(record): `${message.id || ''}-${requestId || ''}`
getRecordHash(record) == record.message.id.s \o <<"-">> \o record.requestId.s

\* new Date(record.timestamp).getTime(): NaN unless the timestamp is a date.
getTime(timestamp) ==
    IF timestamp.t = "string" THEN [nan |-> FALSE, ms |-> timestamp.n]
    ELSE [nan |-> TRUE, ms |-> 0]

\* usage.field || 0
OrZero(value) == IF value.t = "number" THEN value.n ELSE 0

\* sinceTimestamp = null
NoBound == Null

\* The timestamp filter of loadUsageRecords.
sinceFilter(allRecords, sinceTimestamp) ==
    IF sinceTimestamp # NoBound
    THEN SelectSeq(allRecords,
             LAMBDA record : LET recordTime == getTime(record.timestamp)
                             IN  ~recordTime.nan /\ recordTime.ms >= sinceTimestamp)
    ELSE allRecords

\* The deduplication loop as it would be without the set of seen hashes.
dedupeKeepAll(filteredRecords, uniqueRecords, seenHashes) == filteredRecords

\* The deduplication loop of loadUsageRecords.
RECURSIVE dedupe(_, _, _)
dedupe(filteredRecords, uniqueRecords, seenHashes) ==
    IF filteredRecords = <<>> THEN uniqueRecords
    ELSE LET record == Head(filteredRecords)
             hash == getRecordHash(record)
         IN  IF hash \notin seenHashes
             THEN dedupe(Tail(filteredRecords), Append(uniqueRecords, record),
                         seenHashes \cup {hash})
             ELSE dedupe(Tail(filteredRecords), uniqueRecords, seenHashes)

\* The summation loop of loadUsageRecords for one field of usage.
RECURSIVE totalOf(_, _)
totalOf(uniqueRecords, field) ==
    IF uniqueRecords = <<>> THEN 0
    ELSE OrZero(Head(uniqueRecords).message.usage[field]) + totalOf(Tail(uniqueRecords), field)

Aggregated(uniqueRecords) ==
    LET totalInputTokens == totalOf(uniqueRecords, "input_tokens")
        totalOutputTokens == totalOf(uniqueRecords, "output_tokens")
        totalCacheCreationTokens == totalOf(uniqueRecords, "cache_creation_input_tokens")
        totalCacheReadTokens == totalOf(uniqueRecords, "cache_read_input_tokens")
    IN  [totalTokens |-> totalInputTokens + totalOutputTokens
                             + totalCacheCreationTokens + totalCacheReadTokens,
         inputTokens |-> totalInputTokens,
         outputTokens |-> totalOutputTokens,
         cacheCreationTokens |-> totalCacheCreationTokens,
         cacheReadTokens |-> totalCacheReadTokens,
         messageCount |-> Len(uniqueRecords),
         records |-> uniqueRecords]

\* loadUsageRecords as it would be with the deduplication before the filter.
loadUsageRecordsDedupFirst(lines, sinceTimestamp, readOk) ==
    Aggregated(sinceFilter(dedupe(parseJsonlFile(lines, readOk), <<>>, {}), sinceTimestamp))

\* loadUsageRecords(sinceTimestamp) on a data directory with one log file.
loadUsageRecords(lines, sinceTimestamp, readOk) ==
    Aggregated(dedupe(sinceFilter(parseJsonlFile(lines, readOk), sinceTimestamp), <<>>, {}))

NoTotals == Aggregated(<<>>)

InitRecordsCall ==
    /\ usageLog = [state |-> "ready", lines |-> <<>>, readOk |-> TRUE,
                   sinceTimestamp |-> NoBound, records |-> <<>>, totals |-> NoTotals]
    /\ InitFetch
    /\ InitReplay
    /\ InitDom
    /\ InitLoader
    /\ InitSession
    /\ InitScan
    /\ InitRoots
    /\ InitTracker
    /\ InitHistory
    /\ InitCaller
    /\ InitBar
    /\ InitProjects
    /\ InitDisplay
    /\ InitRefresh

\* Environment: the producer appends a line to the log.
AppendLine ==
    /\ usageLog.state = "ready"
    /\ Len(usageLog.lines) < MaxLines
    /\ \E line \in LogLines : usageLog' = [usageLog EXCEPT !.lines = Append(@, line)]
    /\ UNCHANGED <<fetchVars, replayVars, domVars, loaderVars, sessionVars, scanVars, rootVars, trackerVars, historyVars, callerVars, barVars, projectVars, displayVars, refreshVars>>

\* const records = await this.parseJsonlFile(filePath)
ParseJsonlFile ==
    /\ usageLog.state = "ready"
    /\ \E readOk \in BOOLEAN :
         usageLog' = [usageLog EXCEPT !.state = "parsed", !.readOk = readOk,
                                      !.records = parseJsonlFile(usageLog.lines, readOk)]
    /\ UNCHANGED <<fetchVars, replayVars, domVars, loaderVars, sessionVars, scanVars, rootVars, trackerVars, historyVars, callerVars, barVars, projectVars, displayVars, refreshVars>>

\* loadUsageRecords() or, from getTodayUsage, loadUsageRecords(startOfDay)
LoadUsageRecords ==
    /\ usageLog.state = "ready"
    /\ \E sinceTimestamp \in {NoBound} \cup (1..MaxStamp) :
         usageLog' = [usageLog EXCEPT
                         !.state = "loaded", !.sinceTimestamp = sinceTimestamp,
                         !.totals = loadUsageRecords(usageLog.lines, sinceTimestamp, TRUE)]
    /\ UNCHANGED <<fetchVars, replayVars, domVars, loaderVars, sessionVars, scanVars, rootVars, trackerVars, historyVars, callerVars, barVars, projectVars, displayVars, refreshVars>>

NextRecords == AppendLine \/ ParseJsonlFile \/ LoadUsageRecords

SpecRecords == InitRecordsCall /\ [][NextRecords]_vars


(***************************************************************************)
(* The two aggregations on a file system whose calls can fail              *)
(* (src/unnamed/part_002:124-146, 223-292, 304-483).                       *)
(***************************************************************************)

\* A line of a log with both what getCurrentSessionUsage looks at and what
\* loadUsageRecords looks at.
RecordedLine(key, creation, read) ==
    [parses |-> TRUE, type |-> "assistant", usage |-> TRUE,
     cache_creation_input_tokens |-> creation, cache_read_input_tokens |-> read,
     shape |-> "record",
     message |-> [id |-> key[1], model |-> "claude",
                  usage |-> [input_tokens |-> Num(1), output_tokens |-> Num(2),
                             cache_creation_input_tokens |-> Num(creation),
                             cache_read_input_tokens |-> Num(read)]],
     requestId |-> key[2], timestamp |-> Iso(1), isApiErrorMessage |-> FALSE]
\* The log a session of directory d holds.
RecordedLog(d) ==
    IF d = <<"-", "a">> THEN <<RecordedLine(<<Str("msg_1"), Str("req_1")>>, 4, 8)>>
    ELSE <<RecordedLine(<<Str("msg_1"), Str("req_2")>>, 16, 32)>>

\* The file systems a call can meet: no root, or a root with project
\* directories and at most MaxFiles files, each fresh or stale.
SessionFileNames == {<<"uuid", ".jsonl">>, <<"agent-", "1", ".jsonl">>}
SessionKeys == {[dir |-> d, name |-> n] : d \in ProjectDirNames, n \in SessionFileNames}
FileSystems ==
    {[state |-> "on", flaky |-> TRUE, rootExists |-> FALSE, dirs |-> {}, files |-> NoFiles,
      clock |-> MaxClock]}
    \cup
    {[state |-> "on", flaky |-> TRUE, rootExists |-> TRUE, dirs |-> ds,
      files |-> [k \in ks |-> [mtime |-> IF k \in fresh THEN MaxClock ELSE 0,
                               content |-> RecordedLog(k.dir)]],
      clock |-> MaxClock] :
        ds \in SUBSET ProjectDirNames,
        ks \in {x \in SUBSET SessionKeys : Cardinality(x) <= MaxFiles},
        fresh \in SUBSET SessionKeys}

InitBoundaryCall ==
    /\ InitFetch
    /\ InitReplay
    /\ InitDom
    /\ InitSession
    /\ InitScan
    /\ InitRoots
    /\ InitTracker
    /\ InitHistory
    /\ InitCaller
    /\ InitBar
    /\ InitProjects
    /\ InitDisplay
    /\ InitRefresh
    /\ fsys \in {f \in FileSystems : /\ \A k \in DOMAIN f.files : k.dir \in f.dirs}
    /\ loader \in {NewLoader(c, p) : c \in LoaderCopies, p \in {NoPath, <<"/", "a">>}}
    /\ snapshot = [state |-> "none"]
    /\ usageLog = [state |-> "none"]

\* loadUsageRecords stats the root, lists the directory and reads every
\* file: each readFile fails or not.
LoadFaults(fs) ==
    {e \in [rootStatOk : BOOLEAN, projectStatOk : {TRUE}, readdirOk : BOOLEAN,
            unlisted : {NoPath} \cup fs.dirs, statFails : {NoKey},
            readFails : SUBSET DOMAIN fs.files] :
        ~e.readdirOk => e.unlisted = NoPath}

\* The orders readdir can list a set of files in.
Orders(files) ==
    {order \in [1..Cardinality(files) -> files] :
        \A i, j \in DOMAIN order : i # j => order[i] # order[j]}

\* for (const filePath of jsonlFiles) allRecords.push(...parseJsonlFile(filePath))
RECURSIVE allRecordsOf(_, _)
allRecordsOf(fs, jsonlFiles) ==
    IF jsonlFiles = <<>> THEN <<>>
    ELSE LET filePath == Head(jsonlFiles)
         IN  parseJsonlFile(fs.files[filePath].content, filePath \notin fs.unreadable)
                 \o allRecordsOf(fs, Tail(jsonlFiles))

\* loadUsageRecords(sinceTimestamp) on the data directory: jsonlFiles is
\* what findJsonlFiles returned, in the order of readdir.
loadUsageRecordsOf(fs, jsonlFiles, sinceTimestamp) ==
    IF findClaudeDataDirectory(fs) = NoDir THEN [state |-> "loaded", totals |-> NoTotals]
    ELSE [state |-> "loaded",
          totals |-> Aggregated(dedupe(sinceFilter(allRecordsOf(fs, jsonlFiles), sinceTimestamp),
                                       <<>>, {}))]

\* One call of loadUsageRecords; usageLog.faults remembers what failed.
LoadUsageRecordsOfRoot ==
    /\ snapshot.state = "none"
    /\ usageLog.state = "none"
    /\ \E e \in LoadFaults(fsys), sinceTimestamp \in {NoBound, MaxStamp} :
          LET fs == Visible(fsys, e) IN
          \E jsonlFiles \in Orders(findJsonlFiles(fs, findClaudeDataDirectory(fs))) :
             LET r == loadUsageRecordsOf(fs, jsonlFiles, sinceTimestamp)
             IN  usageLog' = [state |-> r.state, totals |-> r.totals, faults |-> e,
                              listed |-> jsonlFiles, sinceTimestamp |-> sinceTimestamp]
    /\ UNCHANGED <<fetchVars, replayVars, domVars, loaderVars, sessionVars, scanVars, rootVars, trackerVars, historyVars, callerVars, barVars, projectVars, displayVars, refreshVars>>

\* One call of getCurrentSessionUsage when no call was made before.
GetCurrentSessionUsageOnce ==
    /\ usageLog.state = "none"
    /\ GetCurrentSessionUsage

NextBoundary == GetCurrentSessionUsageOnce \/ LoadUsageRecordsOfRoot

SpecBoundary == InitBoundaryCall /\ [][NextBoundary]_vars

\* What a result must hold: every field, the numeric ones numbers.
WellFormedUsage(u) ==
    /\ DOMAIN u = {"totalTokens", "inputTokens", "outputTokens", "cacheCreationTokens",
                   "cacheReadTokens", "messageCount", "isActive"}
    /\ \A f \in DOMAIN u \ {"isActive"} : u[f] \in Nat
    /\ u.isActive \in BOOLEAN
WellFormedTotals(t) ==
    /\ DOMAIN t = {"totalTokens", "inputTokens", "outputTokens", "cacheCreationTokens",
                   "cacheReadTokens", "messageCount", "records"}
    /\ \A f \in DOMAIN t \ {"records"} : t[f] \in Nat
    /\ t.messageCount = Len(t.records)
\* Under the faults e nothing of the file system fsys can be read: the root
\* cannot be found or listed, or readFile fails on every file listed.
NothingReadable(e) ==
    \/ ~fsys.rootExists
    \/ ~e.rootStatOk
    \/ ~e.readdirOk
    \/ {k \in DOMAIN fsys.files : k.dir # e.unlisted} \subseteq e.readFails

\* C24: local aggregation never throws past its boundary.  Whatever the
\* file system holds and whichever of stat, readdir and readFile fail during
\* the call, getCurrentSessionUsage and loadUsageRecords resolve: the result
\* has every field with numbers in the numeric ones, and when nothing could
\* be read the totals are zero and isActive is false.
C24_NeverThrows ==
    /\ snapshot.state # "none" =>
          /\ snapshot.state = "returned"
          /\ WellFormedUsage(snapshot.usage)
          /\ NothingReadable(snapshot.faults) =>
                snapshot.usage = ZeroUsage /\ ~snapshot.usage.isActive
    /\ usageLog.state # "none" =>
          /\ usageLog.state = "loaded"
          /\ WellFormedTotals(usageLog.totals)
          /\ NothingReadable(usageLog.faults) =>
                usageLog.totals = NoTotals /\ usageLog.totals.totalTokens = 0
\* A call of getCurrentSessionUsage found a fresh session log, readFile
\* failed on it, and the call returned the zero result.
C24_Witness ==
    /\ snapshot.state = "returned"
    /\ snapshot.faults.rootStatOk /\ snapshot.faults.readdirOk
    /\ snapshot.faults.statFails = NoKey /\ snapshot.faults.unlisted = NoPath
    /\ snapshot.faults.readFails # {}
    /\ snapshot.dataDir # NoDir
    /\ \E k \in DOMAIN fsys.files :
          /\ k.name = <<"uuid", ".jsonl">>
          /\ snapshot.dataDir.kind = "project" => k.dir = snapshot.dataDir.name
          /\ fsys.files[k].mtime = fsys.clock
    /\ snapshot.usage = ZeroUsage


\* The events of the claims about loadUsageRecords: the valid lines of the
\* file, in file order, that pass the bound of the call (all of them when no
\* bound is given), and the key of an event.
KeyOf(event) == <<event.message.id, event.requestId>>
AtOrAfter(event, bound) ==
    bound = NoBound \/ (event.timestamp.t = "string" /\ event.timestamp.n >= bound)
SurvivingEvents ==
    SelectSeq(usageLog.lines,
              LAMBDA line : /\ line.shape \notin {"blank", "malformed"}
                            /\ isValidUsageRecord(line)
                            /\ AtOrAfter(line, usageLog.sinceTimestamp))
IsFirstOfKey(events, j) == \A i \in 1..(j - 1) : KeyOf(events[i]) # KeyOf(events[j])
TokensOf(event, field) == OrZero(event.message.usage[field])
RECURSIVE SumOfFirsts(_, _, _)
SumOfFirsts(events, j, field) ==
    IF j = 0 THEN 0
    ELSE SumOfFirsts(events, j - 1, field)
             + (IF IsFirstOfKey(events, j) THEN TokensOf(events[j], field) ELSE 0)
TokenFields ==
    [inputTokens |-> "input_tokens", outputTokens |-> "output_tokens",
     cacheCreationTokens |-> "cache_creation_input_tokens",
     cacheReadTokens |-> "cache_read_input_tokens"]

\* C18: deduplication.  Of the events with one (messageId, requestId) key
\* only the first is kept: the records returned hold no key twice, they hold
\* the first event of every key, messageCount is the number of keys, and each
\* of the four sums adds the tokens of the first events only.
C18_Deduplication ==
    usageLog.state = "loaded" =>
        LET events == SurvivingEvents
            kept == usageLog.totals.records
        IN  /\ \A i, j \in DOMAIN kept : i # j => KeyOf(kept[i]) # KeyOf(kept[j])
            /\ \A j \in DOMAIN events :
                  IsFirstOfKey(events, j) => \E i \in DOMAIN kept : kept[i] = events[j]
            /\ usageLog.totals.messageCount
                  = Cardinality({KeyOf(events[j]) : j \in DOMAIN events})
            /\ \A total \in DOMAIN TokenFields :
                  usageLog.totals[total] = SumOfFirsts(events, Len(events), TokenFields[total])

\* Two events of one key with different tokens have been aggregated.
C18_Witness ==
    /\ usageLog.state = "loaded" /\ usageLog.sinceTimestamp = NoBound
    /\ \E key \in EventKeys :
         /\ usageLog.lines = <<EarlyEvent(key), Shaped("malformed"), LateEvent(key)>>
         /\ usageLog.totals.records = <<EarlyEvent(key)>>
         /\ usageLog.totals.inputTokens = 1

\* C19: filter, then deduplication, then summation.  With a bound the records
\* returned are events at or after the bound, one for every key that has such
\* an event, namely the first of them in file order, whatever came earlier
\* under the same key before the bound; the four totals are the sums over the
\* records returned, totalTokens is the sum of the four and messageCount the
\* number of records.
C19_FilterDedupSum ==
    usageLog.state = "loaded" =>
        LET events == SurvivingEvents
            kept == usageLog.totals.records
            t == usageLog.totals
        IN  /\ \A i \in DOMAIN kept :
                  /\ isValidUsageRecord(kept[i])
                  /\ AtOrAfter(kept[i], usageLog.sinceTimestamp)
            /\ {KeyOf(kept[i]) : i \in DOMAIN kept} = {KeyOf(events[j]) : j \in DOMAIN events}
            /\ Len(kept) = Cardinality({j \in DOMAIN events : IsFirstOfKey(events, j)})
            /\ \A i \in DOMAIN kept :
                  \E j \in DOMAIN events : IsFirstOfKey(events, j) /\ events[j] = kept[i]
            /\ \A total \in DOMAIN TokenFields :
                  t[total] = SumOfFirsts(kept, Len(kept), TokenFields[total])
            /\ t.totalTokens = t.inputTokens + t.outputTokens
                                   + t.cacheCreationTokens + t.cacheReadTokens
            /\ t.messageCount = Len(kept)

\* A bound has removed the first event of a key and kept a later one.
C19_Witness ==
    /\ usageLog.state = "loaded" /\ usageLog.sinceTimestamp \in 2..MaxStamp
    /\ \E key \in EventKeys :
         /\ usageLog.lines = <<EarlyEvent(key), LateEvent(key), UndatedEvent>>
         /\ usageLog.totals.records = <<LateEvent(key)>>
         /\ usageLog.totals.totalTokens = 56

\* C20: per-line isolation.  When the file can be read, parseJsonlFile
\* returns exactly the lines that parse and pass isValidUsageRecord, in file
\* order, whatever malformed or invalid lines stand before or between them.
C20_PerLineIsolation ==
    usageLog.state = "parsed" /\ usageLog.readOk =>
        /\ usageLog.records
               = SelectSeq(usageLog.lines,
                           LAMBDA line : /\ line.shape \notin {"blank", "malformed"}
                                         /\ isValidUsageRecord(line))
        /\ \A j \in DOMAIN usageLog.lines :
              LET line == usageLog.lines[j] IN
              line.shape = "record" /\ line.message.usage.input_tokens.t = "number"
                  /\ line.message.usage.output_tokens.t = "number"
                  /\ line.message.model # "<synthetic>" /\ ~line.isApiErrorMessage
              => \E i \in DOMAIN usageLog.records : usageLog.records[i] = line

\* A valid line after a malformed one and an invalid one has been returned.
C20_Witness ==
    /\ usageLog.state = "parsed" /\ usageLog.readOk
    /\ usageLog.lines = <<Shaped("malformed"), Synthetic, UndatedEvent>>
    /\ usageLog.records = <<UndatedEvent>>


(***************************************************************************)
(* Where the logs are looked for: getClaudeConfigPaths,                    *)
(* findClaudeDataDirectory and getProjectDataDirectory                     *)
(* (src/unnamed/part_002:49-117).                                          *)
(***************************************************************************)

\* process.env.CLAUDE_CONFIG_DIR has at most MaxEnvLen characters; the empty
\* string stands for an unset variable too: both are falsy.
MaxEnvLen == 3
EnvChars == {"x", "y", ",", " "}
EnvPaths == UNION {[1..n -> EnvChars] : n \in 0..MaxEnvLen}

\* path.join(homeDir, '.config', 'claude', 'projects') and
\* path.join(homeDir, '.claude', 'projects')
XdgPath == <<"~", "/.config/claude/projects">>
LegacyPath == <<"~", "/.claude/projects">>

\* What lies at a path: nothing, a file, a directory, or a directory that
\* holds the directory of the project.
PathKinds == {"absent", "file", "dir", "dirWithProject"}
Disks ==
    [{<<"x">>, <<"y">>} -> PathKinds] \X [{XdgPath, LegacyPath} -> PathKinds \ {"file"}]
\* fs.stat(dirPath): it throws for a path that does not exist.
statKind(disk, dirPath) ==
    IF dirPath \in DOMAIN disk[1] THEN disk[1][dirPath]
    ELSE IF dirPath \in DOMAIN disk[2] THEN disk[2][dirPath]
    ELSE "absent"
isDirectory(disk, dirPath) == statKind(disk, dirPath) \in {"dir", "dirWithProject"}

\* str.split(',')
RECURSIVE splitFrom(_, _, _)
splitFrom(str, current, parts) ==
    IF str = <<>> THEN Append(parts, current)
    ELSE IF Head(str) = "," THEN splitFrom(Tail(str), <<>>, Append(parts, current))
    ELSE splitFrom(Tail(str), Append(current, Head(str)), parts)
split(str) == splitFrom(str, <<>>, <<>>)

\* getClaudeConfigPaths as it would be with the standard locations pushed
\* before the entries of the variable.
getClaudeConfigPathsStandardFirst(envPath) ==
    <<XdgPath, LegacyPath>>
        \o (IF envPath # <<>> THEN [i \in DOMAIN split(envPath) |-> trim(split(envPath)[i])]
            ELSE <<>>)

\* getClaudeConfigPaths()
getClaudeConfigPaths(envPath) ==
    (IF envPath # <<>> THEN [i \in DOMAIN split(envPath) |-> trim(split(envPath)[i])]
     ELSE <<>>)
        \o <<XdgPath, LegacyPath>>

\* findClaudeDataDirectory(): the loop over this.claudeConfigPaths.
RECURSIVE findClaudeDataDirectoryIn(_, _)
findClaudeDataDirectoryIn(claudeConfigPaths, disk) ==
    IF claudeConfigPaths = <<>> THEN NoPath
    ELSE IF isDirectory(disk, Head(claudeConfigPaths)) THEN Head(claudeConfigPaths)
    ELSE findClaudeDataDirectoryIn(Tail(claudeConfigPaths), disk)

\* path.join(baseDir, this.projectDirName)
join(baseDir, name) == baseDir \o <<"/">> \o name

\* getProjectDataDirectory()
getProjectDataDirectoryIn(projectDirName, claudeConfigPaths, disk) ==
    IF projectDirName = NoPath THEN NoPath
    ELSE LET baseDir == findClaudeDataDirectoryIn(claudeConfigPaths, disk)
         IN  IF baseDir = NoPath THEN NoPath
             ELSE IF statKind(disk, baseDir) = "dirWithProject"
             THEN join(baseDir, projectDirName)
             ELSE NoPath

\* new ClaudeDataLoader(workspacePath) in an environment and on a disk.
InitRootsCall ==
    /\ InitFetch
    /\ InitReplay
    /\ InitDom
    /\ InitLoader
    /\ InitSession
    /\ InitRecords
    /\ InitRefresh
    /\ InitDisplay
    /\ InitProjects
    /\ InitBar
    /\ InitCaller
    /\ InitHistory
    /\ InitTracker
    /\ InitScan
    /\ roots \in {[state |-> "ready", envPath |-> envPath, disk |-> disk,
                   claudeConfigPaths |-> getClaudeConfigPaths(envPath),
                   projectDirName |-> projectDirName, found |-> NoPath] :
                     envPath \in EnvPaths, disk \in Disks,
                     projectDirName \in {NoPath, <<"-", "a">>}}

FindClaudeDataDirectory ==
    /\ roots.state = "ready"
    /\ roots' = [roots EXCEPT
                    !.state = "found",
                    !.found = findClaudeDataDirectoryIn(roots.claudeConfigPaths, roots.disk)]
    /\ UNCHANGED <<fetchVars, replayVars, domVars, loaderVars, sessionVars, recordVars, scanVars, trackerVars, historyVars, callerVars, barVars, projectVars, displayVars, refreshVars>>

GetProjectDataDirectory ==
    /\ roots.state = "ready"
    /\ roots' = [roots EXCEPT
                    !.state = "looked",
                    !.found = getProjectDataDirectoryIn(roots.projectDirName,
                                                        roots.claudeConfigPaths, roots.disk)]
    /\ UNCHANGED <<fetchVars, replayVars, domVars, loaderVars, sessionVars, recordVars, scanVars, trackerVars, historyVars, callerVars, barVars, projectVars, displayVars, refreshVars>>

NextRoots == FindClaudeDataDirectory \/ GetProjectDataDirectory

SpecRoots == InitRootsCall /\ [][NextRoots]_vars

\* The entries of the variable, told by the positions of its commas: entry k
\* lies between comma k - 1 and comma k, without the blanks around it.
CommasOf(str) == {i \in DOMAIN str : str[i] = ","}
EntryBounds(str, k) ==
    LET starts == {0} \cup CommasOf(str)
        ends == CommasOf(str) \cup {Len(str) + 1}
        from == CHOOSE i \in starts : Cardinality({j \in starts : j < i}) = k - 1
        to == CHOOSE i \in ends : Cardinality({j \in ends : j < i}) = k - 1
    IN  <<from + 1, to - 1>>
Stripped(str) ==
    LET inked == {i \in DOMAIN str : str[i] # " "}
    IN  IF inked = {} THEN <<>>
        ELSE SubSeq(str, CHOOSE i \in inked : \A j \in inked : i <= j,
                         CHOOSE i \in inked : \A j \in inked : i >= j)
\* The candidates in the order of their priority.
Priority ==
    LET n == IF roots.envPath = <<>> THEN 0 ELSE Cardinality(CommasOf(roots.envPath)) + 1
    IN  [k \in 1..(n + 2) |->
            IF k = n + 1 THEN XdgPath
            ELSE IF k = n + 2 THEN LegacyPath
            ELSE LET b == EntryBounds(roots.envPath, k)
                 IN  Stripped(SubSeq(roots.envPath, b[1], b[2]))]
\* The first candidate that is a directory, if there is one.
FirstRoot ==
    LET dirs == {k \in DOMAIN Priority : isDirectory(roots.disk, Priority[k])}
    IN  IF dirs = {} THEN NoPath ELSE Priority[CHOOSE k \in dirs : \A j \in dirs : k <= j]

\* C25: root discovery order.  findClaudeDataDirectory returns the first
\* candidate, in the order entries of the variable, ~/.config/claude/projects,
\* ~/.claude/projects, that is a directory, and null when none is;
\* getProjectDataDirectory returns the project directory under that root or
\* null, never the root and never a directory under a later root; neither
\* changes the disk.
C25_RootDiscoveryOrder ==
    [][/\ FindClaudeDataDirectory => roots'.found = FirstRoot
       /\ GetProjectDataDirectory =>
            /\ roots'.found \in {NoPath, join(FirstRoot, roots.projectDirName)}
            /\ roots'.found # NoPath <=>
                 /\ roots.projectDirName # NoPath
                 /\ FirstRoot # NoPath
                 /\ statKind(roots.disk, FirstRoot) = "dirWithProject"
            /\ roots'.found # FirstRoot \/ FirstRoot = NoPath
       /\ roots.state # "off" => roots'.disk = roots.disk]_vars
\* The variable names two directories: the first does not exist, the second
\* does and is returned although ~/.config/claude/projects exists too.
C25_Witness ==
    /\ roots.state = "found"
    /\ roots.envPath = <<"x", ",", "y">>
    /\ statKind(roots.disk, <<"x">>) = "absent"
    /\ isDirectory(roots.disk, <<"y">>)
    /\ isDirectory(roots.disk, XdgPath)
    /\ roots.found = <<"y">>


(***************************************************************************)
(* The session-state file (src/src/sessionTracker.js) and the callers of   *)
(* the tracker in src/extension.js:161-232, 293-320.  Each await of        *)
(* loadData or saveData is a point where another call can run.             *)
(***************************************************************************)

\* The stored sessions are at most MaxSessions, a token count at most
\* MaxTokens; the tokenLimit setting has one of the values of TokenLimits.
MaxSessions == 2
MaxTokens == 2
TokenLimits == {4, 5}

\* this.currentSession = null
NoSession == [sessionId |-> 0, tokenUsage |-> [current |-> 0, limit |-> 0, remaining |-> 0]]
\* What loadData returns when the file is missing or invalid.
EmptyData == [sessions |-> <<>>, totals |-> [totalSessions |-> 0, totalTokensUsed |-> 0]]

\* startSession from the data loadData returned: the session is numbered
\* data.sessions.length + 1 (all sessions are of one day) and pushed.
startSession(data, tokenLimit) ==
    LET session == [sessionId |-> Len(data.sessions) + 1,
                    tokenUsage |-> [current |-> 0, limit |-> tokenLimit,
                                    remaining |-> tokenLimit]]
    IN  [currentSession |-> session,
         data |-> [sessions |-> Append(data.sessions, session),
                   totals |-> [data.totals EXCEPT !.totalSessions = Len(data.sessions) + 1]]]

\* data.sessions.reduce((sum, s) => sum + (s.tokenUsage.current || 0), 0)
RECURSIVE sumCurrent(_)
sumCurrent(sessions) ==
    IF sessions = <<>> THEN 0
    ELSE Head(sessions).tokenUsage.current + sumCurrent(Tail(sessions))

\* The four assignments to session.tokenUsage.
withTokens(session, tokensUsed, limit) ==
    [session EXCEPT !.tokenUsage = [current |-> tokensUsed, limit |-> limit,
                                    remaining |-> limit - tokensUsed]]

\* updateTokens from the data loadData returned.  The session is
\* this.currentSession when that is set, an object that is no element of
\* data.sessions, and the last element of data.sessions otherwise.
updateTokens(data, currentSession, tokensUsed, limit) ==
    IF currentSession # NoSession
    THEN [saves |-> TRUE,
          currentSession |-> withTokens(currentSession, tokensUsed, limit),
          data |-> [data EXCEPT !.totals.totalTokensUsed = sumCurrent(data.sessions)]]
    ELSE IF data.sessions = <<>>
    THEN [saves |-> FALSE, currentSession |-> currentSession, data |-> data]
    ELSE LET sessions == [data.sessions EXCEPT
                             ![Len(data.sessions)] = withTokens(@, tokensUsed, limit)]
         IN  [saves |-> TRUE, currentSession |-> currentSession,
              data |-> [sessions |-> sessions,
                        totals |-> [data.totals EXCEPT
                                       !.totalTokensUsed = sumCurrent(sessions)]]]

\* A call that is not running.
IdleCall == [op |-> "none", pc |-> "idle", data |-> EmptyData, tokensUsed |-> 0, limit |-> 0]

NewTracker(callIds) ==
    [state |-> "on", file |-> EmptyData, currentSession |-> NoSession,
     calls |-> [c \in callIds |-> IdleCall],
     started |-> <<>>, updated |-> NoSession]

\* new SessionTracker() in an extension host where up to two callbacks and
\* commands overlap.
InitTrackerCall ==
    /\ InitFetch
    /\ InitReplay
    /\ InitDom
    /\ InitLoader
    /\ InitSession
    /\ InitRecords
    /\ InitRefresh
    /\ InitDisplay
    /\ InitProjects
    /\ InitScan
    /\ InitRoots
    /\ InitHistory
    /\ InitCaller
    /\ InitBar
    /\ tracker = NewTracker({1, 2})

\* The same where every callback and command ends before the next starts.
InitTrackerSequential ==
    /\ InitFetch
    /\ InitReplay
    /\ InitDom
    /\ InitLoader
    /\ InitSession
    /\ InitRecords
    /\ InitRefresh
    /\ InitDisplay
    /\ InitProjects
    /\ InitScan
    /\ InitRoots
    /\ InitHistory
    /\ InitCaller
    /\ InitBar
    /\ tracker = NewTracker({1})

OthersUntouched ==
    UNCHANGED <<fetchVars, replayVars, domVars, loaderVars, sessionVars, recordVars, scanVars,
                rootVars, historyVars, callerVars, barVars, projectVars, displayVars, refreshVars>>

\* The calls that are inside startSession.
Starting ==
    {c \in DOMAIN tracker.calls : tracker.calls[c].pc \in {"startSession", "startSession.save"}}

\* A file-watcher event with an active session of tokensUsed tokens:
\* updateTokensFromJsonl reaches sessionTracker.getCurrentSession().
WatcherEvent(c) ==
    /\ tracker.state = "on"
    /\ tracker.calls[c].pc = "idle"
    /\ \E tokensUsed \in 1..MaxTokens, limit \in TokenLimits :
          tracker' = [tracker EXCEPT
                         !.calls[c] = [IdleCall EXCEPT !.op = "updateTokensFromJsonl",
                                                       !.pc = "getCurrentSession",
                                                       !.tokensUsed = tokensUsed,
                                                       !.limit = limit]]
    /\ OthersUntouched

\* The startSession command, after the input box.
StartSessionCommand(c) ==
    /\ tracker.state = "on"
    /\ tracker.calls[c].pc = "idle"
    /\ Len(tracker.started) + Cardinality(Starting) < MaxSessions
    /\ \E limit \in TokenLimits :
          tracker' = [tracker EXCEPT
                         !.calls[c] = [IdleCall EXCEPT !.op = "startSession",
                                                       !.pc = "startSession",
                                                       !.limit = limit]]
    /\ OthersUntouched

\* getCurrentSession() resolves: this.currentSession, else the last session
\* of the file, else null, and then the callback starts a session.
GetCurrentSession(c) ==
    /\ tracker.state = "on"
    /\ tracker.calls[c].pc = "getCurrentSession"
    /\ \/ tracker.currentSession # NoSession
       \/ tracker.file.sessions # <<>>
       \/ Len(tracker.started) + Cardinality(Starting) < MaxSessions
    /\ tracker' = [tracker EXCEPT
                      !.calls[c].pc =
                          IF tracker.currentSession # NoSession \/ tracker.file.sessions # <<>>
                          THEN "updateTokens" ELSE "startSession"]
    /\ OthersUntouched

\* startSession up to its await of saveData.
StartSessionLoad(c) ==
    /\ tracker.state = "on"
    /\ tracker.calls[c].pc = "startSession"
    /\ LET r == startSession(tracker.file, tracker.calls[c].limit)
       IN  tracker' = [tracker EXCEPT !.currentSession = r.currentSession,
                                      !.calls[c].data = r.data,
                                      !.calls[c].pc = "startSession.save"]
    /\ OthersUntouched

\* saveData of startSession writes the file and startSession returns.
StartSessionSave(c) ==
    /\ tracker.state = "on"
    /\ tracker.calls[c].pc = "startSession.save"
    /\ LET call == tracker.calls[c]
       IN  tracker' = [tracker EXCEPT
                          !.file = call.data,
                          !.started = Append(@, call.data.sessions[Len(call.data.sessions)].sessionId),
                          !.calls[c] = IF call.op = "updateTokensFromJsonl"
                                       THEN [call EXCEPT !.pc = "updateTokens"]
                                       ELSE IdleCall]
    /\ OthersUntouched

\* updateTokens up to its await of saveData, or to its return when there
\* is no session.
UpdateTokensLoad(c) ==
    /\ tracker.state = "on"
    /\ tracker.calls[c].pc = "updateTokens"
    /\ LET call == tracker.calls[c]
           r == updateTokens(tracker.file, tracker.currentSession, call.tokensUsed, call.limit)
       IN  tracker' = [tracker EXCEPT
                          !.currentSession = r.currentSession,
                          !.calls[c] = IF r.saves
                                       THEN [call EXCEPT !.data = r.data,
                                                         !.pc = "updateTokens.save"]
                                       ELSE IdleCall]
    /\ OthersUntouched

\* saveData of updateTokens writes the file and updateTokens returns;
\* tracker.updated remembers the session the call was for and its arguments.
UpdateTokensSave(c) ==
    /\ tracker.state = "on"
    /\ tracker.calls[c].pc = "updateTokens.save"
    /\ LET call == tracker.calls[c]
           sessionId == IF tracker.currentSession # NoSession
                        THEN tracker.currentSession.sessionId
                        ELSE Len(call.data.sessions)
       IN  tracker' = [tracker EXCEPT
                          !.file = call.data,
                          !.updated = withTokens([NoSession EXCEPT !.sessionId = sessionId],
                                                 call.tokensUsed, call.limit),
                          !.calls[c] = IdleCall]
    /\ OthersUntouched

\* The window is reloaded: a new SessionTracker has no currentSession.
Restart ==
    /\ tracker.state = "on"
    /\ \A c \in DOMAIN tracker.calls : tracker.calls[c].pc = "idle"
    /\ tracker.currentSession # NoSession
    /\ tracker' = [tracker EXCEPT !.currentSession = NoSession]
    /\ OthersUntouched

NextTracker ==
    \/ \E c \in DOMAIN tracker.calls : WatcherEvent(c)
    \/ \E c \in DOMAIN tracker.calls : StartSessionCommand(c)
    \/ \E c \in DOMAIN tracker.calls : GetCurrentSession(c)
    \/ \E c \in DOMAIN tracker.calls : StartSessionLoad(c)
    \/ \E c \in DOMAIN tracker.calls : StartSessionSave(c)
    \/ \E c \in DOMAIN tracker.calls : UpdateTokensLoad(c)
    \/ \E c \in DOMAIN tracker.calls : UpdateTokensSave(c)
    \/ Restart

SpecTracker == InitTrackerCall /\ [][NextTracker]_vars
SpecTrackerSequential == InitTrackerSequential /\ [][NextTracker]_vars

Quiescent == \A c \in DOMAIN tracker.calls : tracker.calls[c].pc = "idle"

\* C26: the read-modify-write of the session-state file is serialized.
\* When no call is in flight the file holds one session for every
\* startSession that completed, and no two of them returned the same
\* sessionId.
C26_NoLostUpdate ==
    tracker.state = "on" /\ Quiescent =>
        /\ Len(tracker.file.sessions) = Len(tracker.started)
        /\ \A i, j \in DOMAIN tracker.started :
              i # j => tracker.started[i] # tracker.started[j]
\* Two overlapping callbacks each created a session: both are numbered 1 and
\* the file holds one of them.
C26_Witness ==
    /\ tracker.state = "on" /\ Quiescent
    /\ tracker.started = <<1, 1>>
    /\ Len(tracker.file.sessions) = 1

\* The record of the session the last updateTokens was for is in the file
\* of t with the token usage of that call, and the total is the sum.
Persisted(t) ==
    /\ \E i \in DOMAIN t.file.sessions :
          /\ t.file.sessions[i].sessionId = t.updated.sessionId
          /\ t.file.sessions[i].tokenUsage = t.updated.tokenUsage
    /\ t.file.totals.totalTokensUsed = sumCurrent(t.file.sessions)

\* C27: a token-count refresh updates the persisted session in place.
\* When updateTokens(n, limit) completes, the record of the current session
\* in the file has current = n, limit = limit, remaining = limit - n and
\* totalTokensUsed is the sum of current over the stored sessions.
C27_UpdateInPlace ==
    [][(\E c \in DOMAIN tracker.calls : UpdateTokensSave(c)) => Persisted(tracker')]_vars
\* After a restart the session comes from the file and the refresh is
\* stored.
C27_Witness ==
    /\ tracker.state = "on" /\ Quiescent
    /\ tracker.currentSession = NoSession
    /\ tracker.updated.tokenUsage.current = MaxTokens
    /\ Persisted(tracker)


(***************************************************************************)
(* The usage-history file (src/src/usageHistory.js:9-64, 146-152), one     *)
(* call at a time.                                                         *)
(***************************************************************************)

\* this.maxDataPoints
maxDataPoints == 96
\* A behaviour adds at most MaxAdds points.
MaxAdds == 3
\* The percentages a fetch reports.
UsagePercents == {0, 100}

\* What loadData returns when the file is missing or invalid, and what
\* clearHistory writes.
NoLastUpdated == 0
EmptyHistory == [dataPoints |-> <<>>, lastUpdated |-> NoLastUpdated]

\* dataPoints.slice(-n)
sliceLast(dataPoints, n) ==
    IF Len(dataPoints) <= n THEN dataPoints
    ELSE SubSeq(dataPoints, Len(dataPoints) - n + 1, Len(dataPoints))

\* addDataPoint as it would be with slice(0, this.maxDataPoints).
addDataPointKeepOldest(data, timestamp, fiveHourUsage) ==
    LET pushed == Append(data.dataPoints, [timestamp |-> timestamp, fiveHour |-> fiveHourUsage])
    IN  [dataPoints |-> IF Len(pushed) > maxDataPoints
                        THEN SubSeq(pushed, 1, maxDataPoints) ELSE pushed,
         lastUpdated |-> timestamp]

\* addDataPoint(fiveHourUsage) at the time timestamp, from the data loadData
\* returned to the data saveData writes.
addDataPointTo(data, timestamp, fiveHourUsage) ==
    LET pushed == Append(data.dataPoints, [timestamp |-> timestamp, fiveHour |-> fiveHourUsage])
    IN  [dataPoints |-> IF Len(pushed) > maxDataPoints
                        THEN sliceLast(pushed, maxDataPoints) ELSE pushed,
         lastUpdated |-> timestamp]

\* The history after n calls of addDataPoint, one per tick, for n up to
\* maxDataPoints.
HistoryOf(n) ==
    IF n = 0 THEN EmptyHistory
    ELSE [dataPoints |-> [i \in 1..n |-> [timestamp |-> i, fiveHour |-> 0]],
          lastUpdated |-> n]

\* new UsageHistory() on a file that earlier sessions left empty, or filled
\* up to the cap or nearly.
InitHistoryCall ==
    /\ InitFetch
    /\ InitReplay
    /\ InitDom
    /\ InitLoader
    /\ InitSession
    /\ InitRecords
    /\ InitRefresh
    /\ InitDisplay
    /\ InitProjects
    /\ InitScan
    /\ InitRoots
    /\ InitTracker
    /\ InitCaller
    /\ InitBar
    /\ \E n \in {0} \cup ((maxDataPoints - MaxAdds + 1)..maxDataPoints) :
          history = [state |-> "on", file |-> HistoryOf(n), clock |-> n, adds |-> 0,
                     added |-> HistoryOf(n).dataPoints]

\* fetchUsage: await this.usageHistory.addDataPoint(this.usageData.usagePercent);
\* history.added is the list of all points added so far.
AddHistoryPoint ==
    /\ history.state = "on"
    /\ history.adds < MaxAdds
    /\ \E timestamp \in {history.clock, history.clock + 1}, fiveHourUsage \in UsagePercents :
          history' = [history EXCEPT
                         !.file = addDataPointTo(history.file, timestamp, fiveHourUsage),
                         !.clock = timestamp,
                         !.adds = @ + 1,
                         !.added = Append(@, [timestamp |-> timestamp,
                                              fiveHour |-> fiveHourUsage])]
    /\ UNCHANGED <<fetchVars, replayVars, domVars, loaderVars, sessionVars, recordVars, scanVars,
                   rootVars, trackerVars, callerVars, barVars, projectVars, displayVars, refreshVars>>

\* clearHistory()
ClearHistory ==
    /\ history.state = "on"
    /\ history.file # EmptyHistory
    /\ history' = [history EXCEPT !.file = EmptyHistory, !.added = <<>>]
    /\ UNCHANGED <<fetchVars, replayVars, domVars, loaderVars, sessionVars, recordVars, scanVars,
                   rootVars, trackerVars, callerVars, barVars, projectVars, displayVars, refreshVars>>

NextHistory == AddHistoryPoint \/ ClearHistory

SpecHistory == InitHistoryCall /\ [][NextHistory]_vars

WarningThreshold == 75
ErrorThreshold == 90

\* The usage data of the provider: none yet, or a 5-hour percentage.
NoUsageData == [present |-> FALSE, usagePercent |-> 0]
UsageDatas == {NoUsageData} \cup {[present |-> TRUE, usagePercent |-> p] : p \in {10, 80}}
\* The session data passed: null, a session without tokenUsage, or one with.
NoSessionData == [present |-> FALSE, tokenUsage |-> FALSE, current |-> 0, limit |-> 0]
SessionDatas ==
    {NoSessionData, [NoSessionData EXCEPT !.present = TRUE]}
        \cup {[present |-> TRUE, tokenUsage |-> TRUE, current |-> c, limit |-> l] :
                 c \in {0, 2, 4}, l \in TokenLimits}

\* The texts of the items: null, the placeholder, or icon, prefix, number.
NoText == [kind |-> "null", icon |-> "", percent |-> 0]
TkDash == [kind |-> "Tk -", icon |-> "", percent |-> 0]
TkPercent(icon, percent) == [kind |-> "Tk X%", icon |-> icon, percent |-> percent]
SessionPercent(icon, percent) == [kind |-> "X%@reset", icon |-> icon, percent |-> percent]

\* A status bar item is created hidden and without text.
NewItem == [visible |-> FALSE, text |-> NoText]

\* getIconAndColor(percent, warningThreshold, errorThreshold).icon
getIconAndColor(percent) ==
    IF percent >= ErrorThreshold THEN "$(error)"
    ELSE IF percent >= WarningThreshold THEN "$(warning)"
    ELSE ""

\* Math.round((current / limit) * 100)
tokenPercentOf(current, limit) == (200 * current + limit) \div (2 * limit)

\* The end of updateStatusBar for one item: the item is touched only when
\* the new text differs from the text last displayed.
applyText(item, lastText, newText, visible) ==
    IF newText # lastText
    THEN IF visible THEN [visible |-> TRUE, text |-> newText]
         ELSE [item EXCEPT !.visible = FALSE]
    ELSE item

\* updateStatusBar(item, usageData, activityStats, sessionData)
updateStatusBar(b, usageData, sessionData) ==
    IF ~usageData.present /\ ~sessionData.present
    THEN [b EXCEPT !.session.visible = FALSE, !.tokens.visible = FALSE]
    ELSE LET sessionVisible == usageData.present /\ b.showSession
             newSessionText ==
                 IF sessionVisible
                 THEN SessionPercent(getIconAndColor(usageData.usagePercent),
                                     usageData.usagePercent)
                 ELSE NoText
             tokenPercent == tokenPercentOf(sessionData.current, sessionData.limit)
             newTokensText ==
                 IF ~b.showTokens THEN NoText
                 ELSE IF sessionData.present /\ sessionData.tokenUsage
                 THEN TkPercent(getIconAndColor(tokenPercent), tokenPercent)
                 ELSE TkDash
             tokensVisible == b.showTokens
         IN  [b EXCEPT
                 !.session = applyText(@, b.lastDisplayedValues.sessionText,
                                       newSessionText, sessionVisible),
                 !.tokens = applyText(@, b.lastDisplayedValues.tokensText,
                                      newTokensText, tokensVisible),
                 !.lastDisplayedValues = [sessionText |-> newSessionText,
                                          tokensText |-> newTokensText]]

\* createStatusBarItem(context) with the settings of the user.
InitBarCall ==
    /\ InitFetch
    /\ InitReplay
    /\ InitDom
    /\ InitLoader
    /\ InitSession
    /\ InitRecords
    /\ InitRefresh
    /\ InitDisplay
    /\ InitProjects
    /\ InitScan
    /\ InitRoots
    /\ InitTracker
    /\ InitHistory
    /\ InitCaller
    /\ \E showSession \in BOOLEAN, showTokens \in BOOLEAN :
          bar = [state |-> "on", showSession |-> showSession, showTokens |-> showTokens,
                 session |-> NewItem, tokens |-> NewItem,
                 lastDisplayedValues |-> [sessionText |-> NoText, tokensText |-> NoText],
                 usageData |-> NoUsageData, sessionData |-> NoSessionData, calls |-> 0]

\* A call of updateStatusBar from performFetch or updateTokensFromJsonl;
\* bar.usageData and bar.sessionData remember its arguments.
UpdateStatusBar ==
    /\ bar.state = "on"
    /\ \E usageData \in UsageDatas, sessionData \in SessionDatas :
          bar' = [updateStatusBar(bar, usageData, sessionData) EXCEPT
                     !.usageData = usageData, !.sessionData = sessionData, !.calls = 1]
    /\ UNCHANGED <<fetchVars, replayVars, domVars, loaderVars, sessionVars, recordVars, scanVars,
                   rootVars, trackerVars, historyVars, callerVars, projectVars, displayVars, refreshVars>>

\* The user changes statusBar.showTokens or statusBar.showSession.
ChangeSetting ==
    /\ bar.state = "on"
    /\ \/ bar' = [bar EXCEPT !.showTokens = ~@]
       \/ bar' = [bar EXCEPT !.showSession = ~@]
    /\ UNCHANGED <<fetchVars, replayVars, domVars, loaderVars, sessionVars, recordVars, scanVars,
                   rootVars, trackerVars, historyVars, callerVars, projectVars, displayVars, refreshVars>>

NextBar == UpdateStatusBar \/ ChangeSetting

SpecBar == InitBarCall /\ [][NextBar]_vars

\* C30: with showTokens enabled the token item is visible after every call
\* of updateStatusBar, with 'Tk X%' when the session data has a token usage
\* and 'Tk -' when it has none.
C30_TkAlwaysVisible ==
    [][UpdateStatusBar /\ bar.showTokens =>
          /\ bar'.tokens.visible
          /\ bar'.tokens.text.kind =
                IF bar'.sessionData.present /\ bar'.sessionData.tokenUsage
                THEN "Tk X%" ELSE "Tk -"]_vars
\* The last call had usage data and showTokens is enabled, and the token
\* item is hidden: an earlier call without any data hid it, and 'Tk -' is
\* still the text last displayed.
C30_Witness ==
    /\ bar.state = "on" /\ bar.calls = 1
    /\ bar.showTokens
    /\ bar.usageData.present
    /\ ~bar.sessionData.present
    /\ ~bar.tokens.visible
    /\ bar.lastDisplayedValues.tokensText = TkDash


(***************************************************************************)
(* The callers of performFetch (src/extension.js:40-64, 83-94, 277-284,    *)
(* 431-437) and the scraper they share (src/src/dataProvider.js:224-266,   *)
(* src/unnamed/part_003:184-250, 578-592).                                 *)
(***************************************************************************)

\* A behaviour launches at most MaxLaunches browsers.
MaxLaunches == 3
\* What starts a fetch: the startup timeout, the auto-refresh interval, the
\* fetchNow command.
Triggers == {"startup", "timer", "command"}
NoBrowser == 0

\* A performFetch that is not running.
IdleFetch == [pc |-> "idle", browser |-> NoBrowser]

InitCallerCall ==
    /\ InitFetch
    /\ InitReplay
    /\ InitDom
    /\ InitLoader
    /\ InitSession
    /\ InitRecords
    /\ InitRefresh
    /\ InitDisplay
    /\ InitProjects
    /\ InitScan
    /\ InitRoots
    /\ InitTracker
    /\ InitHistory
    /\ InitBar
    /\ caller = [state |-> "on", fetches |-> [t \in Triggers |-> IdleFetch],
                 startupDone |-> FALSE,
                 browser |-> NoBrowser, isInitialized |-> FALSE,
                 running |-> {}, launched |-> 0]

CallerOthersUntouched ==
    UNCHANGED <<fetchVars, replayVars, domVars, loaderVars, sessionVars, recordVars, scanVars,
                rootVars, trackerVars, historyVars, barVars, projectVars, displayVars, refreshVars>>

\* The timeout, the interval or the command calls performFetch, which
\* calls dataProvider.fetchUsage(): nothing is tested before.
PerformFetch(t) ==
    /\ caller.state = "on"
    /\ caller.fetches[t].pc = "idle"
    /\ t = "startup" => ~caller.startupDone
    /\ caller' = [caller EXCEPT !.fetches[t].pc = "initialize",
                                !.startupDone = @ \/ t = "startup"]
    /\ CallerOthersUntouched

\* scraper.initialize(false) up to its first await: with a live browser it
\* returns, otherwise it goes on to puppeteer.launch.
InitializeBegin(t) ==
    /\ caller.state = "on"
    /\ caller.fetches[t].pc = "initialize"
    /\ caller' =
          IF caller.isInitialized /\ caller.browser \in caller.running
          THEN [caller EXCEPT !.fetches[t] = [pc |-> "using", browser |-> caller.browser]]
          ELSE IF caller.isInitialized /\ caller.browser # NoBrowser
          THEN [caller EXCEPT !.fetches[t].pc = "launching",
                              !.browser = NoBrowser, !.isInitialized = FALSE]
          ELSE [caller EXCEPT !.fetches[t].pc = "launching"]
    /\ CallerOthersUntouched

\* puppeteer.launch with userDataDir = this.sessionDir resolves or fails; on
\* success this.browser is the new browser.
Launch(t) ==
    /\ caller.state = "on"
    /\ caller.fetches[t].pc = "launching"
    /\ caller.launched < MaxLaunches
    /\ \E ok \in BOOLEAN :
          caller' =
             IF ok
             THEN [caller EXCEPT !.launched = @ + 1,
                                 !.running = @ \cup {caller.launched + 1},
                                 !.browser = caller.launched + 1,
                                 !.isInitialized = TRUE,
                                 !.fetches[t] = [pc |-> "using",
                                                 browser |-> caller.launched + 1]]
             ELSE [caller EXCEPT !.fetches[t].pc = "finally"]
    /\ CallerOthersUntouched

\* ensureLoggedIn, fetchUsageData and addDataPoint, on the page of the
\* browser: they return or throw.
UseBrowser(t) ==
    /\ caller.state = "on"
    /\ caller.fetches[t].pc = "using"
    /\ caller' = [caller EXCEPT !.fetches[t].pc = "finally"]
    /\ CallerOthersUntouched

\* finally { await this.scraper.close() }: the browser the scraper holds
\* now is closed, whoever launched it.
CloseBrowser(t) ==
    /\ caller.state = "on"
    /\ caller.fetches[t].pc = "finally"
    /\ caller' = [caller EXCEPT
                     !.running = @ \ {caller.browser},
                     !.browser = NoBrowser,
                     !.isInitialized = IF caller.browser = NoBrowser THEN @ ELSE FALSE,
                     !.fetches[t] = IdleFetch]
    /\ CallerOthersUntouched

NextCaller ==
    \/ \E t \in Triggers : PerformFetch(t)
    \/ \E t \in Triggers : InitializeBegin(t)
    \/ \E t \in Triggers : Launch(t)
    \/ \E t \in Triggers : UseBrowser(t)
    \/ \E t \in Triggers : CloseBrowser(t)

SpecCaller == InitCallerCall /\ [][NextCaller]_vars

InFlight == {t \in Triggers : caller.fetches[t].pc # "idle"}

\* C29: the caller does not overlap fetch cycles.  At most one performFetch
\* is in flight, a fetch that uses a browser finds it running, and at most
\* one browser runs on the profile directory.
C29_NoOverlappingFetch ==
    caller.state = "on" =>
        /\ Cardinality(InFlight) <= 1
        /\ \A t \in Triggers :
              caller.fetches[t].pc = "using" => caller.fetches[t].browser \in caller.running
        /\ Cardinality(caller.running) <= 1
\* The fetch of the command still uses the browser that the cleanup of the
\* timer's fetch has closed.
C29_Witness ==
    /\ caller.state = "on"
    /\ caller.fetches["command"].pc = "using"
    /\ caller.fetches["command"].browser \notin caller.running
    /\ caller.fetches["timer"].pc = "idle"
    /\ caller.browser = NoBrowser


----------------------------------------------------------------------------
(* Further properties of the fetch cycle (Spec)                            *)

\* C31: when a fetch cycle fails at any step, fetchUsage returns the error as
\* webError and usageData is what it was when the cycle was started (the last
\* record fetched, or none).
C31_StaleDataRetained ==
    cycle.pc = "done" /\ cycle.webError # NoError => provider.usageData = cycle.before

\* A cycle has failed at the write of the history file, after the data fetch
\* returned a record that differs from the one held before.
C31_Witness ==
    /\ cycle.pc = "done"
    /\ cycle.webError = MsgHistoryWrite
    /\ provider.usageData # cycle.before
    /\ provider.usageData # NoRecord


\* ClaudeAuth.getDiagnostics(): the handles auth was given by the last
\* setPageAndBrowser.  (sessionDir and hasExistingSession are about the
\* profile directory and are left out.)
authGetDiagnostics(a) ==
    [hasPage |-> a.page # Null, hasBrowser |-> a.browser # Null]

\* An object literal { ...first, ...second }: a key of second replaces the
\* same key of first.
spread(first, second) ==
    [k \in DOMAIN first \cup DOMAIN second |->
        IF k \in DOMAIN second THEN second[k] ELSE first[k]]

\* getDiagnostics as it would be with auth's fields spread before its own.
getDiagnosticsOwnLast(w) ==
    spread(authGetDiagnostics(w.a),
           [isInitialized |-> w.s.isInitialized,
            isConnectedBrowser |-> w.s.isConnectedBrowser,
            hasBrowser |-> w.s.browser # Null,
            hasPage |-> w.s.page # Null,
            hasApiEndpoint |-> w.s.apiEndpoint # NoEndpoint,
            hasApiHeaders |-> w.s.apiHeaders # NoHeaders,
            hasCreditsEndpoint |-> w.s.creditsEndpoint # NoEndpoint,
            hasOverageEndpoint |-> w.s.overageEndpoint # NoEndpoint,
            capturedEndpointsCount |-> Len(w.s.capturedEndpoints)])

\* ClaudeUsageScraper.getDiagnostics(): its own flags, then ...authDiag.
\* (The schema fields are constants and are left out.)  It assigns nothing.
getDiagnostics(w) ==
    spread([isInitialized |-> w.s.isInitialized,
            isConnectedBrowser |-> w.s.isConnectedBrowser,
            hasBrowser |-> w.s.browser # Null,
            hasPage |-> w.s.page # Null,
            hasApiEndpoint |-> w.s.apiEndpoint # NoEndpoint,
            hasApiHeaders |-> w.s.apiHeaders # NoHeaders,
            hasCreditsEndpoint |-> w.s.creditsEndpoint # NoEndpoint,
            hasOverageEndpoint |-> w.s.overageEndpoint # NoEndpoint,
            capturedEndpointsCount |-> Len(w.s.capturedEndpoints)],
           authGetDiagnostics(w.a))

\* C32: in every reachable state the snapshot of getDiagnostics has hasBrowser
\* true iff the scraper holds a browser handle, hasPage true iff it holds a
\* page handle, and the endpoint flags and the count are those of the capture
\* state.
C32_DiagnosticsReflectHandles ==
    LET d == getDiagnostics(W) IN
    /\ d.hasBrowser = (scraper.browser # Null)
    /\ d.hasPage = (scraper.page # Null)
    /\ d.hasApiEndpoint = (scraper.apiEndpoint # NoEndpoint)
    /\ d.hasApiHeaders = (scraper.apiHeaders # NoHeaders)
    /\ d.hasCreditsEndpoint = (scraper.creditsEndpoint # NoEndpoint)
    /\ d.hasOverageEndpoint = (scraper.overageEndpoint # NoEndpoint)
    /\ d.capturedEndpointsCount = Len(scraper.capturedEndpoints)

\* A cycle has completed, close() has dropped both handles of the scraper, and
\* the snapshot still reports a browser and a page.
C32_Witness ==
    /\ cycle.pc = "done"
    /\ scraper.browser = Null
    /\ scraper.page = Null
    /\ getDiagnostics(W).hasBrowser
    /\ getDiagnostics(W).hasPage


\* C36: the login wait starts only after forceOpenBrowser has opened the
\* login browser: when forceOpenBrowser succeeds the wait starts on a page
\* that is open, and when it fails ensureLoggedIn throws and no wait starts.
C36_WaitOnlyAfterOpen ==
    [][cycle.pc = "forceOpenBrowser" /\ cycle'.pc # "forceOpenBrowser" =>
          IF cycle'.opened = "true"
          THEN /\ cycle'.pc = "waitForLogin"
               /\ PageAlive(World(scraper', auth', browsers'), auth'.page)
          ELSE cycle'.pc = "catch"]_vars

\* forceOpenBrowser has found no Chrome executable and returned a failure,
\* and waitForLogin polls the cookies of a page that does not exist.
C36_Witness ==
    /\ cycle.pc = "waitForLogin"
    /\ cycle.opened = "false"
    /\ ~cycle.launched
    /\ ~PageAlive(W, auth.page)
    /\ cycle.read = "error"

\* C37: ensureLoggedIn returns normally only when validateSession answered
\* valid or the user has logged in during the login wait, and waitForLogin
\* reports a login only when the user has logged in during the wait: a cookie
\* that was in the jar when the validation failed does not end the wait.
C37_ReturnsOnlyWhenValid ==
    [][/\ ~cycle.ensured /\ cycle'.ensured => cycle.reason = "valid" \/ cycle.relogin
       /\ cycle.pc = "waitForLogin" /\ cycle'.pc = "relaunchClose" => cycle.relogin]_vars

\* The server rejected the session, nobody has logged in, the cookie is
\* still in the jar, and waitForLogin has reported a login.
C37_Witness ==
    /\ cycle.pc = "relaunchClose"
    /\ cycle.loggedIn = "true"
    /\ cycle.reason = "server_rejected"
    /\ ~cycle.relogin
    /\ jar.present

\* C38: the handle invariant of the scraper.  In every state isInitialized
\* implies that a browser and a page handle are held, a page handle is held
\* only with a browser handle, and the usage endpoint is held iff its headers
\* are; and a call of initialize that finds an initialized scraper whose
\* browser runs launches nothing and leaves the scraper as it is.
C38_HandleInvariant ==
    /\ [](/\ scraper.isInitialized => scraper.browser # Null /\ scraper.page # Null
          /\ scraper.page # Null => scraper.browser # Null
          /\ (scraper.apiEndpoint # NoEndpoint) <=> (scraper.apiHeaders # NoHeaders))
    /\ [][/\ cycle.pc \in {"initialize", "relaunchInitialize"}
          /\ cycle'.pc # cycle.pc
          /\ scraper.isInitialized
          /\ scraper.browser \in DOMAIN browsers
          => browsers' = browsers /\ scraper' = scraper]_vars

\* A cycle was started while the browser of the openBrowser command was
\* running: initialize has kept it, and the endpoint captured earlier is held
\* with its headers.
C38_Witness ==
    /\ cycle.pc = "validateSession"
    /\ ~cycle.launched
    /\ scraper.isInitialized
    /\ scraper.browser \in DOMAIN browsers
    /\ scraper.page # Null
    /\ scraper.apiEndpoint # NoEndpoint
    /\ scraper.apiHeaders # NoHeaders

----------------------------------------------------------------------------
(* Further properties of the status bar (SpecBar)                          *)

\* C33: after every call of updateStatusBar each item is visible iff that
\* call computed it as visible, and then shows the text the call computed:
\* the session item when usage data was passed and showSession is enabled,
\* the token item when any data was passed and showTokens is enabled.
C33_CacheConsistency ==
    [][UpdateStatusBar =>
          LET usageData == bar'.usageData
              sessionData == bar'.sessionData
              any == usageData.present \/ sessionData.present
              sessionVisible == any /\ usageData.present /\ bar.showSession
              tokensVisible == any /\ bar.showTokens
              tokenPercent == tokenPercentOf(sessionData.current, sessionData.limit)
          IN  /\ bar'.session.visible = sessionVisible
              /\ sessionVisible =>
                     bar'.session.text =
                        SessionPercent(getIconAndColor(usageData.usagePercent),
                                       usageData.usagePercent)
              /\ bar'.tokens.visible = tokensVisible
              /\ tokensVisible =>
                     bar'.tokens.text =
                        IF sessionData.present /\ sessionData.tokenUsage
                        THEN TkPercent(getIconAndColor(tokenPercent), tokenPercent)
                        ELSE TkDash]_vars

\* The last call had usage data and showSession is enabled, and the session
\* item is hidden: an earlier call without any data hid it, and the text the
\* last call computed is the one displayed before.
C33_Witness ==
    /\ bar.state = "on" /\ bar.calls = 1
    /\ bar.showSession
    /\ bar.usageData.present
    /\ ~bar.session.visible
    /\ bar.session.text = bar.lastDisplayedValues.sessionText
    /\ bar.lastDisplayedValues.sessionText.kind = "X%@reset"


----------------------------------------------------------------------------
(* SpecDedup: loadUsageRecords on events whose ids are missing or contain  *)
(* the character the hash joins them with (src/unnamed/part_002:200-204,   *)
(* 255-264).                                                               *)

\* A string of several characters.
Chars(characters) == [t |-> "string", n |-> 0, s |-> characters]

\* (messageId, requestId) of the events: ('a-b', 'c') and ('a', 'b-c'), an
\* event without message id, one without request id, one without both, and
\* one with plain ids.
IdKeys ==
    {<<Chars(<<"a", "-", "b">>), Str("c")>>, <<Str("a"), Chars(<<"b", "-", "c">>)>>,
     <<Undefined, Str("c")>>, <<Str("c"), Undefined>>, <<Undefined, Undefined>>,
     <<Str("msg_1"), Str("req_1")>>}

\* Environment: the producer appends an event to the log.
AppendEvent ==
    /\ usageLog.state = "ready"
    /\ Len(usageLog.lines) < MaxLines
    /\ \E key \in IdKeys : usageLog' = [usageLog EXCEPT !.lines = Append(@, EarlyEvent(key))]
    /\ UNCHANGED <<fetchVars, replayVars, domVars, loaderVars, sessionVars, scanVars, rootVars, trackerVars, historyVars, callerVars, barVars, projectVars, displayVars, refreshVars>>

NextDedup == AppendEvent \/ LoadUsageRecords

SpecDedup == InitRecordsCall /\ [][NextDedup]_vars

\* C34: loadUsageRecords merges no two events whose (messageId, requestId)
\* pairs differ: every pair among the valid events that pass the bound has an
\* event among the records returned, and messageCount is the number of pairs.
C34_NoMergeOfDistinct ==
    usageLog.state = "loaded" =>
        LET events == SurvivingEvents
            kept == usageLog.totals.records
        IN  /\ \A j \in DOMAIN events : \E i \in DOMAIN kept : KeyOf(kept[i]) = KeyOf(events[j])
            /\ usageLog.totals.messageCount
                  = Cardinality({KeyOf(events[j]) : j \in DOMAIN events})

\* The events ('a-b', 'c') and ('a', 'b-c') have been aggregated and one
\* record was returned.
C34_Witness ==
    /\ usageLog.state = "loaded" /\ usageLog.sinceTimestamp = NoBound
    /\ usageLog.lines = <<EarlyEvent(<<Chars(<<"a", "-", "b">>), Str("c")>>),
                          EarlyEvent(<<Str("a"), Chars(<<"b", "-", "c">>)>>)>>
    /\ usageLog.totals.messageCount = 1
    /\ usageLog.totals.inputTokens = 1


----------------------------------------------------------------------------
(* SpecProjects: the mapping of a workspace path to the name of its project *)
(* directory (src/unnamed/part_002:29-32, 49-72), on absolute paths that   *)
(* hold the character the mapping writes.                                  *)

\* Longest workspace path, in characters, and the number of workspaces that
\* have a project directory.
MaxPathLen == 4
MaxProjects == 1

\* Absolute, normalised paths: they start with '/', hold no empty component
\* and end with none.
PathChars == {"/", "-", "a"}
WorkspacePaths ==
    {p \in UNION {[1..n -> PathChars] : n \in 2..MaxPathLen} :
        /\ p[1] = "/"
        /\ p[Len(p)] # "/"
        /\ \A i \in 1..(Len(p) - 1) : ~(p[i] = "/" /\ p[i + 1] = "/")}

\* The names of the project directories under the root: one for each
\* workspace Claude Code was run in.
ProjectDirsOf(made) == {convertPathToClaudeDir(p) : p \in made}

\* getProjectDataDirectory(): the directory named projectDirName under the
\* root when it exists, null otherwise.
projectDirOf(projectDirName, made) ==
    IF projectDirName = NoPath THEN NoPath
    ELSE IF projectDirName \in ProjectDirsOf(made) THEN projectDirName
    ELSE NoPath

InitProjectsCall ==
    /\ InitFetch
    /\ InitReplay
    /\ InitDom
    /\ InitLoader
    /\ InitSession
    /\ InitRecords
    /\ InitRefresh
    /\ InitDisplay
    /\ InitScan
    /\ InitRoots
    /\ InitTracker
    /\ InitHistory
    /\ InitCaller
    /\ InitBar
    /\ projects = [state |-> "on", made |-> {}, workspacePath |-> NoPath,
                   projectDirName |-> NoPath, dir |-> NoPath, calls |-> 0]

\* Environment: Claude Code runs in workspace p and makes its project
\* directory under the root.
MakeProject ==
    /\ projects.state = "on"
    /\ Cardinality(projects.made) < MaxProjects
    /\ \E p \in WorkspacePaths \ projects.made :
          projects' = [projects EXCEPT !.made = @ \cup {p}]
    /\ UNCHANGED <<fetchVars, replayVars, domVars, loaderVars, sessionVars, recordVars, scanVars,
                   rootVars, trackerVars, historyVars, callerVars, barVars, displayVars, refreshVars>>

\* new ClaudeDataLoader(workspacePath) / setWorkspacePath(workspacePath)
SetProjectWorkspace ==
    /\ projects.state = "on"
    /\ \E p \in WorkspacePaths :
          /\ p # projects.workspacePath
          /\ projects' = [projects EXCEPT !.workspacePath = p,
                                          !.projectDirName = convertPathToClaudeDir(p),
                                          !.dir = NoPath, !.calls = 0]
    /\ UNCHANGED <<fetchVars, replayVars, domVars, loaderVars, sessionVars, recordVars, scanVars,
                   rootVars, trackerVars, historyVars, callerVars, barVars, displayVars, refreshVars>>

\* getProjectDataDirectory(), from getCurrentSessionUsage
ReadProjectDir ==
    /\ projects.state = "on"
    /\ projects.workspacePath # NoPath
    /\ projects' = [projects EXCEPT !.dir = projectDirOf(projects.projectDirName, projects.made),
                                    !.calls = 1]
    /\ UNCHANGED <<fetchVars, replayVars, domVars, loaderVars, sessionVars, recordVars, scanVars,
                   rootVars, trackerVars, historyVars, callerVars, barVars, displayVars, refreshVars>>

NextProjects == MakeProject \/ SetProjectWorkspace \/ ReadProjectDir

SpecProjects == InitProjectsCall /\ [][NextProjects]_vars

\* C35: the mapping replaces every '/' by '-' and nothing else, two different
\* workspace paths have different directory names, and the directory a
\* workspace reads is one that was made for that workspace.
C35_MappingKeepsProjectsApart ==
    projects.state = "on" /\ projects.workspacePath # NoPath =>
        /\ Len(projects.projectDirName) = Len(projects.workspacePath)
        /\ \A i \in DOMAIN projects.workspacePath :
              projects.projectDirName[i] =
                 IF projects.workspacePath[i] = "/" THEN "-" ELSE projects.workspacePath[i]
        /\ \A q \in WorkspacePaths :
              q # projects.workspacePath => convertPathToClaudeDir(q) # projects.projectDirName
        /\ projects.dir # NoPath => projects.workspacePath \in projects.made

\* The loader of workspace '/a-a' has read the project directory that was
\* made for workspace '/a/a'.
C35_Witness ==
    /\ projects.state = "on" /\ projects.calls = 1
    /\ projects.workspacePath = <<"/", "a", "-", "a">>
    /\ projects.made = {<<"/", "a", "/", "a">>}
    /\ projects.dir = <<"-", "a", "-", "a">>


----------------------------------------------------------------------------
(* SpecDisplay: the two paths that update the token display: the local    *)
(* snapshot (src/extension.js:185-232) and the end of a remote fetch cycle *)
(* (src/extension.js:40-76), on the session the tracker stores             *)
(* (src/src/sessionTracker.js:115-122).  Each handler runs to its end      *)
(* before the next starts.                                                 *)

\* SessionTracker.getCurrentSession(): this.currentSession, or the last
\* session of the file, or null.
getCurrentSession(data, currentSession) ==
    IF currentSession # NoSession THEN currentSession
    ELSE IF data.sessions # <<>> THEN data.sessions[Len(data.sessions)]
    ELSE NoSession

\* The sessionData argument of updateStatusBar for a session of the tracker.
SessionDataOf(session) ==
    IF session = NoSession THEN NoSessionData
    ELSE [present |-> TRUE, tokenUsage |-> TRUE,
          current |-> session.tokenUsage.current, limit |-> session.tokenUsage.limit]

\* The snapshots getCurrentSessionUsage returns.
Snapshots == [isActive : BOOLEAN, totalTokens : 0..MaxTokens]

\* updateStatusBar(...) and dataProvider.updateSessionData(sessionData, ...)
showSessionData(d, sessionData) ==
    [d EXCEPT !.bar = updateStatusBar(@, d.usageData, sessionData),
              !.tree = sessionData]

\* updateStatusBarWithAllData as it would be if it passed the session data
\* of the last local snapshot.
updateStatusBarWithAllDataOfSnapshot(d) ==
    showSessionData(d, IF d.lastLocal = "inactive" THEN NoSessionData
                       ELSE SessionDataOf(getCurrentSession(d.data, d.currentSession)))

\* updateStatusBarWithAllData(): the session of the tracker goes to the
\* status bar and to the tree.
updateStatusBarWithAllData(d) ==
    showSessionData(d, SessionDataOf(getCurrentSession(d.data, d.currentSession)))

\* updateTokensFromJsonl(): an active snapshot with tokens updates the
\* session (which is created when the tracker has none) and shows it; any
\* other snapshot shows no session data.
updateTokensFromJsonl(d, usage, tokenLimit) ==
    IF usage.isActive /\ usage.totalTokens > 0
    THEN LET found == getCurrentSession(d.data, d.currentSession)
             started == IF found = NoSession
                        THEN startSession(d.data, tokenLimit)
                        ELSE [currentSession |-> d.currentSession, data |-> d.data]
             updated == updateTokens(started.data, started.currentSession,
                                     usage.totalTokens, tokenLimit)
             d1 == [d EXCEPT !.data = updated.data,
                             !.currentSession = updated.currentSession]
         IN  showSessionData(d1, SessionDataOf(getCurrentSession(d1.data, d1.currentSession)))
    ELSE showSessionData(d, NoSessionData)

\* activate(): the tracker, the status bar items with both settings
\* enabled, no usage data yet.
InitDisplayCall ==
    /\ InitFetch
    /\ InitReplay
    /\ InitDom
    /\ InitLoader
    /\ InitSession
    /\ InitRecords
    /\ InitRefresh
    /\ InitProjects
    /\ InitScan
    /\ InitRoots
    /\ InitTracker
    /\ InitHistory
    /\ InitCaller
    /\ InitBar
    /\ display = [state |-> "on", data |-> EmptyData, currentSession |-> NoSession,
                  usageData |-> NoUsageData,
                  bar |-> [showSession |-> TRUE, showTokens |-> TRUE,
                           session |-> NewItem, tokens |-> NewItem,
                           lastDisplayedValues |-> [sessionText |-> NoText,
                                                    tokensText |-> NoText]],
                  tree |-> NoSessionData, lastLocal |-> "none", lastPath |-> "none"]

\* The file watcher or the poll calls updateTokensFromJsonl.
UpdateTokensFromJsonl ==
    /\ display.state = "on"
    /\ \E usage \in Snapshots, tokenLimit \in TokenLimits :
          display' = [updateTokensFromJsonl(display, usage, tokenLimit) EXCEPT
                         !.lastLocal = IF usage.isActive /\ usage.totalTokens > 0
                                       THEN "active" ELSE "inactive",
                         !.lastPath = "local"]
    /\ UNCHANGED <<fetchVars, replayVars, domVars, loaderVars, sessionVars, recordVars, scanVars,
                   rootVars, trackerVars, historyVars, callerVars, barVars, projectVars, refreshVars>>

\* performFetch: fetchUsage leaves usageData as it was or with a new
\* record, and the finally block calls updateStatusBarWithAllData.
PerformFetchUpdate ==
    /\ display.state = "on"
    /\ \E usageData \in {display.usageData} \cup (UsageDatas \ {NoUsageData}) :
          display' = [updateStatusBarWithAllData([display EXCEPT !.usageData = usageData])
                         EXCEPT !.lastPath = "remote"]
    /\ UNCHANGED <<fetchVars, replayVars, domVars, loaderVars, sessionVars, recordVars, scanVars,
                   rootVars, trackerVars, historyVars, callerVars, barVars, projectVars, refreshVars>>

NextDisplay == UpdateTokensFromJsonl \/ PerformFetchUpdate

SpecDisplay == InitDisplayCall /\ [][NextDisplay]_vars

\* C39: when the last local snapshot was inactive, the update at the end of
\* a remote fetch cycle shows no token percentage of the stored session, on
\* the status bar or in the tree.
C39_PathsAgreeOnTokens ==
    [][PerformFetchUpdate /\ display.lastLocal = "inactive" =>
          /\ ~(display'.bar.tokens.visible /\ display'.bar.tokens.text.kind = "Tk X%")
          /\ ~display'.tree.present]_vars

\* The last local snapshot was inactive, a remote fetch cycle has ended
\* after it, and the token item shows the percentage of the stored session.
C39_Witness ==
    /\ display.state = "on"
    /\ display.lastLocal = "inactive"
    /\ display.lastPath = "remote"
    /\ display.bar.tokens.visible
    /\ display.bar.tokens.text.kind = "Tk X%"
    /\ display.tree.present


----------------------------------------------------------------------------
(* SpecRefresh: the auto-refresh timer of the extension                    *)
(* (src/extension.js:83-94, 439-459, 467-481).  deactivate awaits the      *)
(* close of the scraper after it cleared the timer; the configuration      *)
(* listener is disposed after deactivate has returned.                     *)

\* A behaviour creates at most MaxTimers timers and counts at most MaxFires
\* calls of the interval callback.
MaxTimers == 3
MaxFires == 1

\* The range of createAutoRefreshTimer, and let autoRefreshTimer (no timer).
MinMinutes == 1
MaxMinutes == 60
NoTimer == 0

\* The values of the autoRefreshMinutes setting.
Minutes == {-1, 0, 1, 5, 60, 61}

\* clearInterval(timer)
clearInterval(r, timer) ==
    [r EXCEPT !.timers = [id \in DOMAIN r.timers \ {timer} |-> r.timers[id]]]

\* Math.max(1, Math.min(60, minutes))
clampMinutes(minutes) ==
    LET least == IF MaxMinutes < minutes THEN MaxMinutes ELSE minutes
    IN  IF MinMinutes > least THEN MinMinutes ELSE least

\* createAutoRefreshTimer(minutes): null, or the timer setInterval returns.
\* r.peak is the largest number of timers that have run at one time.
createAutoRefreshTimer(r, minutes) ==
    LET clampedMinutes == clampMinutes(minutes) IN
    IF clampedMinutes <= 0 THEN [r |-> r, timer |-> NoTimer]
    ELSE LET id == r.created + 1
             timers == [t \in DOMAIN r.timers \cup {id} |->
                           IF t = id THEN clampedMinutes ELSE r.timers[t]]
         IN  [r |-> [r EXCEPT !.timers = timers, !.created = id,
                              !.peak = IF Cardinality(DOMAIN timers) > @
                                       THEN Cardinality(DOMAIN timers) ELSE @],
              timer |-> id]

\* The listener as it would be without the clearInterval.
onDidChangeConfigurationNoClear(r, newAutoRefresh) ==
    LET made == createAutoRefreshTimer([r EXCEPT !.setting = newAutoRefresh], newAutoRefresh)
    IN  [made.r EXCEPT !.autoRefreshTimer = made.timer]

\* The onDidChangeConfiguration listener for autoRefreshMinutes: clear the
\* timer held, then create one for the new value.
onDidChangeConfiguration(r, newAutoRefresh) ==
    LET cleared == IF r.autoRefreshTimer # NoTimer
                   THEN [clearInterval(r, r.autoRefreshTimer) EXCEPT
                            !.autoRefreshTimer = NoTimer]
                   ELSE r
        made == createAutoRefreshTimer([cleared EXCEPT !.setting = newAutoRefresh],
                                       newAutoRefresh)
    IN  [made.r EXCEPT !.autoRefreshTimer = made.timer]

\* The extension before activate.
InitRefreshCall ==
    /\ InitFetch
    /\ InitReplay
    /\ InitDom
    /\ InitLoader
    /\ InitSession
    /\ InitRecords
    /\ InitProjects
    /\ InitDisplay
    /\ InitScan
    /\ InitRoots
    /\ InitTracker
    /\ InitHistory
    /\ InitCaller
    /\ InitBar
    /\ refresh = [state |-> "inactive", setting |-> 5, autoRefreshTimer |-> NoTimer,
                  timers |-> [t \in {} |-> 0], created |-> 0, peak |-> 0, fires |-> 0]

\* activate(): autoRefreshTimer = createAutoRefreshTimer(config.get(...))
Activate ==
    /\ refresh.state = "inactive"
    /\ \E minutes \in Minutes :
          LET made == createAutoRefreshTimer([refresh EXCEPT !.setting = minutes], minutes)
          IN  refresh' = [made.r EXCEPT !.state = "active", !.autoRefreshTimer = made.timer]
    /\ UNCHANGED <<fetchVars, replayVars, domVars, loaderVars, sessionVars, recordVars, scanVars,
                   rootVars, trackerVars, historyVars, callerVars, barVars, projectVars,
                   displayVars>>

\* The user changes autoRefreshMinutes while the listener is subscribed.
OnDidChangeConfiguration ==
    /\ refresh.state \in {"active", "closing"}
    /\ refresh.created < MaxTimers
    /\ \E minutes \in Minutes \ {refresh.setting} :
          refresh' = onDidChangeConfiguration(refresh, minutes)
    /\ UNCHANGED <<fetchVars, replayVars, domVars, loaderVars, sessionVars, recordVars, scanVars,
                   rootVars, trackerVars, historyVars, callerVars, barVars, projectVars,
                   displayVars>>

\* Environment: the interval of a running timer elapses and its callback
\* calls performFetch.
TimerFires ==
    /\ refresh.state # "off"
    /\ DOMAIN refresh.timers # {}
    /\ refresh.fires < MaxFires
    /\ refresh' = [refresh EXCEPT !.fires = @ + 1]
    /\ UNCHANGED <<fetchVars, replayVars, domVars, loaderVars, sessionVars, recordVars, scanVars,
                   rootVars, trackerVars, historyVars, callerVars, barVars, projectVars,
                   displayVars>>

\* deactivate() up to its await: the timer is cleared; with a browser held
\* the close of the scraper takes time, without one deactivate returns.
DeactivateBegin ==
    /\ refresh.state = "active"
    /\ \E browserHeld \in BOOLEAN :
          LET cleared == IF refresh.autoRefreshTimer # NoTimer
                         THEN [clearInterval(refresh, refresh.autoRefreshTimer) EXCEPT
                                  !.autoRefreshTimer = NoTimer]
                         ELSE refresh
          IN  refresh' = [cleared EXCEPT
                             !.state = IF browserHeld THEN "closing" ELSE "deactivated"]
    /\ UNCHANGED <<fetchVars, replayVars, domVars, loaderVars, sessionVars, recordVars, scanVars,
                   rootVars, trackerVars, historyVars, callerVars, barVars, projectVars,
                   displayVars>>

\* deactivate() after its await: the scraper is closed and deactivate
\* returns; the subscriptions are disposed.
DeactivateEnd ==
    /\ refresh.state = "closing"
    /\ refresh' = [refresh EXCEPT !.state = "deactivated"]
    /\ UNCHANGED <<fetchVars, replayVars, domVars, loaderVars, sessionVars, recordVars, scanVars,
                   rootVars, trackerVars, historyVars, callerVars, barVars, projectVars,
                   displayVars>>

NextRefresh ==
    \/ Activate \/ OnDidChangeConfiguration \/ TimerFires
    \/ DeactivateBegin \/ DeactivateEnd

SpecRefresh == InitRefreshCall /\ [][NextRefresh]_vars

\* C40: while the extension is active exactly one timer runs, it is the one
\* the extension holds and its interval is the setting clamped to 1..60
\* minutes; no two timers ever run at one time; after deactivate none runs.
C40_TimerInvariant ==
    /\ refresh.state = "active" =>
          /\ DOMAIN refresh.timers = {refresh.autoRefreshTimer}
          /\ refresh.autoRefreshTimer # NoTimer
          /\ refresh.timers[refresh.autoRefreshTimer] =
                 IF refresh.setting < 1 THEN 1
                 ELSE IF refresh.setting > 60 THEN 60
                 ELSE refresh.setting
    /\ refresh.state # "off" => refresh.peak <= 1
    /\ refresh.state = "deactivated" =>
          DOMAIN refresh.timers = {} /\ refresh.autoRefreshTimer = NoTimer

\* deactivate has returned, and the timer that a configuration change made
\* while the scraper was closing runs and has fired.
C40_Witness ==
    /\ refresh.state = "deactivated"
    /\ refresh.autoRefreshTimer # NoTimer
    /\ refresh.autoRefreshTimer \in DOMAIN refresh.timers
    /\ refresh.fires = MaxFires

====
